---- MODULE Spec2Model ----
(***************************************************************************)
(* Tablespace lifecycle manager (src/backend/commands/tablespace.c):       *)
(* CREATE / DROP / RENAME TABLESPACE, name lookup with the key-share row   *)
(* lock, the lazy per-database directory, and WAL replay of the two        *)
(* tablespace records.                                                     *)
(*                                                                         *)
(* Names and paths are sequences of one-character strings, so that the     *)
(* prefix, quote, absolute-path and trailing-slash tests are computed.     *)
(* pg_tablespace is a set of tuple versions with xmin/xmax, so that        *)
(* rollback, visibility and row-lock waits are those of the heap.          *)
(***************************************************************************)
EXTENDS Integers, Sequences, FiniteSets, TLC

VARIABLES
    pg_tablespace,   \* tuple versions: [oid, spcname, spcowner, xmin, xmax]
    keyshare,        \* key-share tuple locks: set of <<session, oid>>
    pg_class,        \* per relation: NoRel or [spc, xmin] (its tablespace)
    nextOid,         \* the OID counter (never goes back, also on abort)
    pc,              \* per session: position inside the running command
    op,              \* per session: the statement being executed
    ret,             \* per session: outcome of the command so far
    TablespaceCreateLock, \* holder of the LWLock, or NoSession
    fs,              \* the filesystem: [verdir, link, dbdir, relfile]
    wal,             \* the tablespace records of the write-ahead log, in order
    walAborted,      \* history: a transaction that wrote a record aborted
    forceSync,       \* per session: ForceSyncCommit() called in this transaction
    dispatched,      \* per session: the statement was sent to the workers
    Gp_role,         \* "dispatch" (coordinator), "execute" (worker) or "utility"
    InRecovery,      \* TRUE while WAL replay runs
    replayPos,       \* index of the next WAL record to replay
    redoPre,         \* history: the filesystem before the last replayed record
    redoErr,         \* error raised by replay ("ok" when none)
    backup,          \* history: [taken, fs], a filesystem state the run passed through
    fsAtCrash,       \* history: [clean, fs], the filesystem when the run ended
    snap,            \* history: [taken, rows, fs, pg_class, oid, name], a state
                     \* and a tablespace remembered before a series of renames
    temp,            \* temp_tablespaces and the list kept for the transaction
    relLocks         \* AccessExclusiveLocks on relations: <<session, relation>>

vars == <<pg_tablespace, keyshare, pg_class, nextOid, pc, op, ret, TablespaceCreateLock,
          fs, wal, walAborted, forceSync, dispatched, Gp_role, InRecovery, replayPos,
          redoPre, redoErr, backup, fsAtCrash, snap, temp, relLocks>>

(* variables of the statements added to the core model *)
auxVars == <<snap, temp, relLocks>>

normalVars == <<pg_tablespace, keyshare, pg_class, nextOid, pc, op, ret,
                TablespaceCreateLock, fs, wal, walAborted, forceSync, dispatched>>
redoVars == <<InRecovery, replayPos, redoPre, redoErr, fsAtCrash>>

----------------------------------------------------------------------------
(* Bounds and input sets *)

MaxCreates == 2          \* how many OIDs CREATE TABLESPACE may consume
MaxWal == 3              \* how many tablespace records the log may hold

Sessions == {"s1", "s2"}
NoSession == "none"
Committed == "committed"

Users == {"su", "u1"}
NoOwner == "none"

Dbs == {"db1", "db2"}
Rels == {"r1", "r2", "r3"}

(* program constants *)
InvalidOid == 0
DEFAULTTABLESPACE_OID == 1663
GLOBALTABLESPACE_OID == 1664
FirstNormalObjectId == 16384
MAXPGPATH == 1024
OIDCHARS == 10
FORKNAMECHARS == 4
VersionDirLen == 22     \* strlen("GPDB_8.5_201001061_db1"), tablespace_version_directory()

UserOids == FirstNormalObjectId .. (FirstNormalObjectId + MaxCreates - 1)

Name_pg_default == <<"p","g","_","d","e","f","a","u","l","t">>
Name_pg_global == <<"p","g","_","g","l","o","b","a","l">>
Name_ts1 == <<"t","s","1">>
Name_ts2 == <<"t","s","2">>
Name_pg_x == <<"p","g","_","x">>

CreateNames == {Name_ts1, Name_ts2, Name_pg_x}
AllNames == CreateNames \cup {Name_pg_default, Name_pg_global}

Path_a == <<"/","a">>
Path_a_slash == <<"/","a","/">>
Path_b == <<"/","b">>
Path_rel == <<"a">>
Path_quote == <<"/","a","'">>
Path_missing == <<"/","c">>

Paths == {Path_a, Path_a_slash, Path_b, Path_rel, Path_quote, Path_missing}

(* directories that exist on this host *)
ExistingDirs == {Path_a, Path_b}
NoLink == <<>>

----------------------------------------------------------------------------
(* String helpers *)

superuser(user) == user = "su"

(* IsReservedName: the name starts with the reserved prefix "pg_" *)
IsReservedName(name) ==
    /\ Len(name) >= 3
    /\ name[1] = "p" /\ name[2] = "g" /\ name[3] = "_"

RECURSIVE StripTrailingSlashes(_)
StripTrailingSlashes(path) ==
    IF Len(path) > 1 /\ path[Len(path)] = "/"
    THEN StripTrailingSlashes(SubSeq(path, 1, Len(path) - 1))
    ELSE path

(* canonicalize_path: strip any trailing slashes (the root stays "/") *)
canonicalize_path(path) == StripTrailingSlashes(path)

(* the directory a path names to the operating system *)
FsDir(path) == StripTrailingSlashes(path)

(* strchr(location, '\'') *)
HasQuote(path) == \E i \in 1..Len(path) : path[i] = "'"

is_absolute_path(path) == Len(path) >= 1 /\ path[1] = "/"

(* strlen(location) + 1 + strlen(version dir) + 1 + OIDCHARS + 1 + OIDCHARS
   + 1 + FORKNAMECHARS + 1 + OIDCHARS > MAXPGPATH *)
LocationTooLong(path) ==
    Len(path) + 1 + VersionDirLen + 1 + OIDCHARS + 1 + OIDCHARS + 1
        + FORKNAMECHARS + 1 + OIDCHARS > MAXPGPATH

----------------------------------------------------------------------------
(* The filesystem.
   verdir  : the locations that hold this node's version directory
   link    : pg_tblspc/<oid>, the location it points to or NoLink
   dbdir   : <<location, database>> for each per-database subdirectory
   relfile : per relation, the location its file lives in and the state of
             the file: "none", "live", "unlinked" (dropped, kept as an
             empty file until the next checkpoint), or "temp" (written by
             a backend of a standby)
   nospace : pg_tblspc takes no new entry, symlink() fails there
   deny    : the calls that the operating system refuses with a permission
             error: "opendir" on a version directory, "unlink" of a
             symbolic link                                               *)

NoFile == [dir |-> NoLink, state |-> "none"]

EmptyFs == [locdir |-> ExistingDirs,
            verdir |-> {},
            link |-> [o \in UserOids |-> NoLink],
            dbdir |-> {},
            relfile |-> [r \in Rels |-> NoFile],
            nospace |-> FALSE,
            deny |-> {}]

RelDb(r) == IF r = "r1" THEN "db1" ELSE "db2"

(* the files present in <location>/<version dir>/<db> *)
FilesIn(f, d, db) ==
    {r \in Rels : f.relfile[r].state # "none" /\ f.relfile[r].dir = d
                                              /\ RelDb(r) = db}

(* a test that takes every directory for empty *)
directory_is_empty_always(f, d, db) == TRUE

directory_is_empty(f, d, db) == FilesIn(f, d, db) = {}

(* rmtree(location_with_version_dir, true) *)
rmtree(f, d) ==
    [f EXCEPT !.verdir = @ \ {d},
              !.dbdir = {x \in @ : x[1] # d},
              !.relfile = [r \in Rels |->
                              IF @[r].dir = d THEN NoFile ELSE @[r]]]

(* a checkpoint removes the files that were waiting to be unlinked *)
CheckpointFs(f) ==
    [f EXCEPT !.relfile = [r \in Rels |->
                              IF @[r].state = "unlinked" THEN NoFile ELSE @[r]]]

(* replay that keeps what it finds *)
ForceDropVersionDir_keep(f, d, inRecovery) == f

(* InRecovery: forcibly drop the version directory if present *)
ForceDropVersionDir(f, d, inRecovery) ==
    IF inRecovery /\ d \in f.verdir THEN rmtree(f, d) ELSE f

RemoveOldSymlink_keep(f, tablespaceoid, inRecovery) == f

(* InRecovery: remove the old symlink, ENOENT is fine *)
RemoveOldSymlink(f, tablespaceoid, inRecovery) ==
    IF inRecovery THEN [f EXCEPT !.link[tablespaceoid] = NoLink] ELSE f

(* a creation that accepts a version directory that is there already *)
create_tablespace_directories_shared(f, location, tablespaceoid, inRecovery) ==
    LET d == FsDir(location)
        f2 == [f EXCEPT !.verdir = @ \cup {d}]
    IN  IF d \notin f.locdir THEN [fs |-> f, err |-> "undefined_file"]
        ELSE IF f2.link[tablespaceoid] # NoLink THEN [fs |-> f2, err |-> "file_access"]
        ELSE [fs |-> [f2 EXCEPT !.link[tablespaceoid] = location], err |-> "ok"]

(* a creation that does not look at the location first *)
create_tablespace_directories_nochmod(f, location, tablespaceoid, inRecovery) ==
    LET d == FsDir(location)
        f1 == ForceDropVersionDir(f, d, inRecovery)
        f2 == [f1 EXCEPT !.verdir = @ \cup {d}]
        f3 == RemoveOldSymlink(f2, tablespaceoid, inRecovery)
    IN  IF d \in f1.verdir THEN [fs |-> f1, err |-> "object_in_use"]
        ELSE IF f3.link[tablespaceoid] # NoLink THEN [fs |-> f3, err |-> "file_access"]
        ELSE [fs |-> [f3 EXCEPT !.link[tablespaceoid] = location], err |-> "ok"]

(* create_tablespace_directories: the filesystem it leaves and the error it
   raises ("ok" when none).  Effects before a failing step stay. *)
create_tablespace_directories(f, location, tablespaceoid, inRecovery) ==
    LET d == FsDir(location)
        \* chmod(location, S_IRWXU)
        chmodOk == d \in f.locdir
        f1 == ForceDropVersionDir(f, d, inRecovery)
        \* mkdir(location_with_version_dir)
        mkdirOk == d \notin f1.verdir
        f2 == [f1 EXCEPT !.verdir = @ \cup {d}]
        f3 == RemoveOldSymlink(f2, tablespaceoid, inRecovery)
        \* symlink(location, linkloc)
        symlinkOk == f3.link[tablespaceoid] = NoLink /\ ~f3.nospace
        f4 == [f3 EXCEPT !.link[tablespaceoid] = location]
    IN  IF ~chmodOk THEN [fs |-> f, err |-> "undefined_file"]
        ELSE IF ~mkdirOk THEN [fs |-> f1, err |-> "object_in_use"]
        ELSE IF ~symlinkOk THEN [fs |-> f3, err |-> "file_access"]
        ELSE [fs |-> f4, err |-> "ok"]

(* a destruction without the test that delivers the friendlier message:
   outside redo the rmdir of a subdirectory that holds files is an ERROR *)
destroy_tablespace_directories_notest(f, tablespaceoid, redo) ==
    LET linked == f.link[tablespaceoid] # NoLink
        d == FsDir(f.link[tablespaceoid])
        exists == linked /\ d \in f.verdir
        opened == exists /\ "opendir" \notin f.deny
        subdirs == {db \in Dbs : <<d, db>> \in f.dbdir}
        nonempty == {db \in subdirs : ~directory_is_empty(f, d, db)}
        without(dbs) == [f EXCEPT !.dbdir = {x \in @ : ~(x[1] = d /\ x[2] \in dbs)}]
        unlinkFails == linked /\ "unlink" \in f.deny
        remove_symlink(g) ==
            IF unlinkFails
            THEN [fs |-> g, result |-> redo,
                  err |-> IF redo THEN "ok" ELSE "file_access"]
            ELSE [fs |-> [g EXCEPT !.link[tablespaceoid] = NoLink],
                  result |-> TRUE, err |-> "ok"]
    IN  IF ~exists
        THEN {remove_symlink(f)}
        ELSE IF ~opened
        THEN {[fs |-> f, result |-> FALSE,
               err |-> IF redo THEN "ok" ELSE "file_access"]}
        ELSE IF nonempty = {}
        THEN {remove_symlink([without(subdirs) EXCEPT !.verdir = @ \ {d}])}
        ELSE IF redo
        THEN {[fs |-> without(subdirs \ nonempty), result |-> FALSE, err |-> "ok"]}
        ELSE {[fs |-> without(gone), result |-> FALSE, err |-> "file_access"] :
                  gone \in SUBSET (subdirs \ nonempty)}

(* a destruction for which a missing version directory is an ERROR outside
   redo *)
destroy_tablespace_directories_enoent(f, tablespaceoid, redo) ==
    LET linked == f.link[tablespaceoid] # NoLink
        d == FsDir(f.link[tablespaceoid])
        exists == linked /\ d \in f.verdir
        opened == exists /\ "opendir" \notin f.deny
        subdirs == {db \in Dbs : <<d, db>> \in f.dbdir}
        nonempty == {db \in subdirs : ~directory_is_empty(f, d, db)}
        without(dbs) == [f EXCEPT !.dbdir = {x \in @ : ~(x[1] = d /\ x[2] \in dbs)}]
        unlinkFails == linked /\ "unlink" \in f.deny
        remove_symlink(g) ==
            IF unlinkFails
            THEN [fs |-> g, result |-> redo,
                  err |-> IF redo THEN "ok" ELSE "file_access"]
            ELSE [fs |-> [g EXCEPT !.link[tablespaceoid] = NoLink],
                  result |-> TRUE, err |-> "ok"]
    IN  IF ~exists
        THEN {IF redo THEN remove_symlink(f)
              ELSE [fs |-> f, result |-> FALSE, err |-> "file_access"]}
        ELSE IF ~opened
        THEN {[fs |-> f, result |-> FALSE,
               err |-> IF redo THEN "ok" ELSE "file_access"]}
        ELSE IF nonempty = {}
        THEN {remove_symlink([without(subdirs) EXCEPT !.verdir = @ \ {d}])}
        ELSE IF redo
        THEN {[fs |-> without(subdirs \ nonempty), result |-> FALSE, err |-> "ok"]}
        ELSE {[fs |-> without(gone), result |-> FALSE, err |-> "ok"] :
                  gone \in SUBSET (subdirs \ nonempty)}

(* a destruction that reports a symlink it could not remove as a failure *)
destroy_tablespace_directories_retrylink(f, tablespaceoid, redo) ==
    LET linked == f.link[tablespaceoid] # NoLink
        d == FsDir(f.link[tablespaceoid])
        exists == linked /\ d \in f.verdir
        opened == exists /\ "opendir" \notin f.deny
        subdirs == {db \in Dbs : <<d, db>> \in f.dbdir}
        nonempty == {db \in subdirs : ~directory_is_empty(f, d, db)}
        without(dbs) == [f EXCEPT !.dbdir = {x \in @ : ~(x[1] = d /\ x[2] \in dbs)}]
        unlinkFails == linked /\ "unlink" \in f.deny
        remove_symlink(g) ==
            IF unlinkFails
            THEN [fs |-> g, result |-> FALSE,
                  err |-> IF redo THEN "ok" ELSE "file_access"]
            ELSE [fs |-> [g EXCEPT !.link[tablespaceoid] = NoLink],
                  result |-> TRUE, err |-> "ok"]
    IN  IF ~exists
        THEN {remove_symlink(f)}
        ELSE IF ~opened
        THEN {[fs |-> f, result |-> FALSE,
               err |-> IF redo THEN "ok" ELSE "file_access"]}
        ELSE IF nonempty = {}
        THEN {remove_symlink([without(subdirs) EXCEPT !.verdir = @ \ {d}])}
        ELSE IF redo
        THEN {[fs |-> without(subdirs \ nonempty), result |-> FALSE, err |-> "ok"]}
        ELSE {[fs |-> without(gone), result |-> FALSE, err |-> "ok"] :
                  gone \in SUBSET (subdirs \ nonempty)}

(* destroy_tablespace_directories: the set of outcomes [fs, result, err],
   err being the ERROR it raises ("ok" when none; the result then means
   nothing).  The order in which ReadDir hands out the subdirectories is
   not fixed, so a non-redo call that gives up may have removed any of the
   empty ones.                                                           *)
destroy_tablespace_directories(f, tablespaceoid, redo) ==
    LET linked == f.link[tablespaceoid] # NoLink
        d == FsDir(f.link[tablespaceoid])
        \* AllocateDir(pg_tblspc/<oid>/<version dir>): ENOENT when absent
        exists == linked /\ d \in f.verdir
        opened == exists /\ "opendir" \notin f.deny
        subdirs == {db \in Dbs : <<d, db>> \in f.dbdir}
        nonempty == {db \in subdirs : ~directory_is_empty(f, d, db)}
        without(dbs) == [f EXCEPT !.dbdir = {x \in @ : ~(x[1] = d /\ x[2] \in dbs)}]
        \* remove_symlink: unlink(linkloc); ENOENT is at most a warning, any
        \* other failure is logged in redo and an ERROR otherwise
        unlinkFails == linked /\ "unlink" \in f.deny
        remove_symlink(g) ==
            IF unlinkFails
            THEN [fs |-> g, result |-> redo,
                  err |-> IF redo THEN "ok" ELSE "file_access"]
            ELSE [fs |-> [g EXCEPT !.link[tablespaceoid] = NoLink],
                  result |-> TRUE, err |-> "ok"]
    IN  IF ~exists
        THEN {remove_symlink(f)}
        ELSE IF ~opened
        THEN \* in redo the failure is logged; otherwise ReadDir reports it
             {[fs |-> f, result |-> FALSE,
               err |-> IF redo THEN "ok" ELSE "file_access"]}
        ELSE IF nonempty = {}
        THEN {remove_symlink([without(subdirs) EXCEPT !.verdir = @ \ {d}])}
        ELSE IF redo
        THEN \* every rmdir is tried, failures are logged; the version
             \* directory is then not empty and its rmdir fails
             {[fs |-> without(subdirs \ nonempty), result |-> FALSE, err |-> "ok"]}
        ELSE {[fs |-> without(gone), result |-> FALSE, err |-> "ok"] :
                  gone \in SUBSET (subdirs \ nonempty)}

----------------------------------------------------------------------------
(* The catalog: heap tuple versions of pg_tablespace.  xmin/xmax hold the
   session whose transaction inserted/deleted the version while it is in
   progress; a committed insert has xmin = Committed, a committed delete
   removes the version, an aborted insert removes it too.               *)

NoXid == "none"
NoName == <<>>
NoTuple == [oid |-> InvalidOid, spcname |-> NoName, spcowner |-> NoOwner,
            xmin |-> NoXid, xmax |-> NoXid]
NoRel == [spc |-> InvalidOid, xmin |-> NoXid]

OidIsValid(oid) == oid # InvalidOid
HeapTupleIsValid(t) == t.oid # InvalidOid

heap_form_tuple(oid, name, owner, xid) ==
    [oid |-> oid, spcname |-> name, spcowner |-> owner,
     xmin |-> xid, xmax |-> NoXid]

(* the catalog snapshot of session s *)
Visible(cat, s, t) == (t.xmin = Committed \/ t.xmin = s) /\ t.xmax # s

heap_getnext(matches) ==
    IF matches = {} THEN NoTuple ELSE CHOOSE t \in matches : TRUE

ScanByName(cat, s, name) ==
    heap_getnext({t \in cat : Visible(cat, s, t) /\ t.spcname = name})

ScanByOid(cat, s, oid) ==
    heap_getnext({t \in cat : Visible(cat, s, t) /\ t.oid = oid})

(* get_tablespace_oid, the scan: the OID of the row named so, or InvalidOid *)
get_tablespace_oid_scan(cat, s, tablespacename) ==
    LET tuple == ScanByName(cat, s, tablespacename)
    IN  IF HeapTupleIsValid(tuple) THEN tuple.oid ELSE InvalidOid

(* get_tablespace_name with a scan that lacks the key on the OID *)
get_tablespace_name_nokey(cat, s, spc_oid) ==
    LET tuple == heap_getnext({t \in cat : Visible(cat, s, t)})
    IN  IF HeapTupleIsValid(tuple) THEN tuple.spcname ELSE NoName

(* get_tablespace_name: the name of the row with this OID, or NULL *)
get_tablespace_name(cat, s, spc_oid) ==
    LET tuple == ScanByOid(cat, s, spc_oid)
    IN  IF HeapTupleIsValid(tuple) THEN tuple.spcname ELSE NoName

(* pg_tablespace_ownercheck *)
pg_tablespace_ownercheck(cat, s, oid, user) ==
    superuser(user) \/ ScanByOid(cat, s, oid).spcowner = user

(* another transaction in progress is updating or deleting the row *)
XmaxBusy(s, oid) ==
    \E t \in pg_tablespace : t.oid = oid /\ t.xmax \notin {NoXid, s}

(* a tuple lock request that never waits *)
heap_lock_tuple_nowait(s, oid) == FALSE

(* heap_lock_tuple(LockTupleKeyShare, LockTupleWait) has to wait *)
heap_lock_tuple_waits(s, oid) == XmaxBusy(s, oid)

(* heap_delete / heap_update of a key column need the exclusive tuple lock *)
heap_delete_waits(s, oid) ==
    \/ XmaxBusy(s, oid)
    \/ \E w \in Sessions \ {s} : <<w, oid>> \in keyshare

(* the entries of the unique index on spcname an insertion of `name' by s
   meets; self is the OID of the version being indexed *)
IndexEntries(s, name, self) ==
    {t \in pg_tablespace : /\ t.spcname = name
                           /\ t.xmax # s
                           /\ ~(t.xmin = s /\ t.oid = self)}

unique_check_waits(s, name, self) ==
    \E t \in IndexEntries(s, name, self) :
        t.xmin \notin {Committed, s} \/ t.xmax \notin {NoXid, s}

unique_check_fails(s, name, self) == IndexEntries(s, name, self) # {}

(* a lookup that takes no tuple lock *)
KeyShareLock_none(s, oid) == {}

(* the key-share tuple lock get_tablespace_oid leaves behind *)
KeyShareLock(s, oid) == {<<s, oid>>}

CommitTuples(cat, s) ==
    {IF t.xmin = s THEN [t EXCEPT !.xmin = Committed] ELSE t :
         t \in {u \in cat : u.xmax # s}}

AbortTuples(cat, s) ==
    {IF t.xmax = s THEN [t EXCEPT !.xmax = NoXid] ELSE t :
         t \in {u \in cat : u.xmin # s}}

----------------------------------------------------------------------------
(* Sessions *)

NoOp == [kind |-> "none"]
NoRet == [err |-> "none", oid |-> InvalidOid]

(* positions at which a session has scanned a row and not yet locked it *)
ScannedPcs == {"lookup_lock", "create_lock", "drop_delete", "rename_update",
               "temp_lock", "default_lock"}

(* positions of a Create or Drop that has not written its WAL record yet *)
PreLogPcs == {"create_lock", "create_insert", "create_dirs",
              "drop_delete", "drop_lwlock", "drop_destroy", "drop_retry"}

WalRoom ==
    Len(wal) + Cardinality({t \in Sessions : pc[t] \in PreLogPcs}) < MaxWal

OidRoom ==
    nextOid + Cardinality({t \in Sessions : pc[t] \in {"create_lock", "create_insert"}})
        < FirstNormalObjectId + MaxCreates

frame0 == <<Gp_role, InRecovery, replayPos, redoPre, redoErr, backup, fsAtCrash,
            auxVars>>
frame == <<walAborted, frame0>>

(* temp_tablespaces is empty and no list is kept *)
NoTemp == [guc |-> <<>>, user |-> NoOwner, set |-> FALSE, spcs |-> <<>>,
           namelist |-> <<>>, pos |-> 1, acc |-> <<>>, calls |-> 0]

AfterLocal(s) == IF Gp_role = "dispatch" THEN "dispatch" ELSE "commit"

InitRole(role) ==
    /\ pg_tablespace =
         {heap_form_tuple(DEFAULTTABLESPACE_OID, Name_pg_default, "su", Committed),
          heap_form_tuple(GLOBALTABLESPACE_OID, Name_pg_global, "su", Committed)}
    /\ keyshare = {}
    /\ pg_class = [r \in Rels |-> NoRel]
    /\ nextOid = FirstNormalObjectId
    /\ pc = [s \in Sessions |-> "idle"]
    /\ op = [s \in Sessions |-> NoOp]
    /\ ret = [s \in Sessions |-> NoRet]
    /\ TablespaceCreateLock = NoSession
    /\ fs = EmptyFs
    /\ wal = <<>>
    /\ walAborted = FALSE
    /\ forceSync = [s \in Sessions |-> FALSE]
    /\ dispatched = [s \in Sessions |-> FALSE]
    /\ Gp_role = role
    /\ InRecovery = FALSE
    /\ replayPos = 1
    /\ redoPre = EmptyFs
    /\ redoErr = "ok"
    /\ backup = [taken |-> FALSE, fs |-> EmptyFs]
    /\ fsAtCrash = [clean |-> FALSE, fs |-> EmptyFs]
    /\ snap = [taken |-> FALSE, rows |-> {}, fs |-> EmptyFs,
               pg_class |-> [r \in Rels |-> NoRel], oid |-> InvalidOid,
               name |-> NoName]

(* no temp_tablespaces, no relation locked *)
InitAux ==
    /\ temp = NoTemp
    /\ relLocks = {}

----------------------------------------------------------------------------
(* get_tablespace_oid as a command of its own (rel = "none"), or as the
   first step of creating relation rel in the named tablespace           *)

LookupScan(s, name, missing_ok, rel) ==
    /\ ~InRecovery /\ pc[s] = "idle"
    /\ rel # "none" => /\ ~missing_ok
                       /\ pg_class[rel] = NoRel
                       /\ fs.relfile[rel].state = "none"
    /\ LET result == get_tablespace_oid_scan(pg_tablespace, s, name)
       IN  /\ op' = [op EXCEPT ![s] = [kind |-> "lookup", name |-> name,
                                       missing_ok |-> missing_ok, rel |-> rel,
                                       oid |-> result, stale |-> FALSE]]
           /\ pc' = [pc EXCEPT ![s] =
                        IF OidIsValid(result) THEN "lookup_lock"
                        ELSE IF missing_ok THEN "commit" ELSE "abort"]
           /\ ret' = [ret EXCEPT ![s] =
                        IF OidIsValid(result) THEN NoRet
                        ELSE IF missing_ok
                             THEN [err |-> "ok", oid |-> InvalidOid]
                             ELSE [err |-> "undefined_object", oid |-> InvalidOid]]
    /\ UNCHANGED <<pg_tablespace, keyshare, pg_class, nextOid,
                   TablespaceCreateLock, fs, wal, forceSync, dispatched, frame>>

(* heap_lock_tuple(LockTupleKeyShare, LockTupleWait) and its result *)
LookupLock(s) ==
    /\ ~InRecovery /\ pc[s] = "lookup_lock"
    /\ ~heap_lock_tuple_waits(s, op[s].oid)
    /\ IF op[s].stale
       THEN /\ pc' = [pc EXCEPT ![s] = "abort"]
            /\ ret' = [ret EXCEPT ![s] = [err |-> "serialization_failure",
                                          oid |-> InvalidOid]]
            /\ UNCHANGED keyshare
       ELSE /\ keyshare' = keyshare \cup KeyShareLock(s, op[s].oid)
            /\ ret' = [ret EXCEPT ![s] = [err |-> "ok", oid |-> op[s].oid]]
            /\ pc' = [pc EXCEPT ![s] =
                         IF op[s].rel = "none" THEN "commit" ELSE "dbspace_stat"]
    /\ UNCHANGED <<pg_tablespace, pg_class, nextOid, op,
                   TablespaceCreateLock, fs, wal, forceSync, dispatched, frame>>

----------------------------------------------------------------------------
(* TablespaceCreateDbspace(spcNode, dbNode, false) and the creation of the
   relation's file                                                        *)

(* stat(GetDatabasePath(dbNode, spcNode)) finds a directory *)
DbDirExists(f, spcNode, dbNode) ==
    /\ f.link[spcNode] # NoLink
    /\ FsDir(f.link[spcNode]) \in f.verdir
    /\ <<FsDir(f.link[spcNode]), dbNode>> \in f.dbdir

(* mkdir(dir) has its parent directory *)
DbDirParentExists(f, spcNode) ==
    /\ f.link[spcNode] # NoLink
    /\ FsDir(f.link[spcNode]) \in f.verdir

DbspaceStat(s) ==
    /\ ~InRecovery /\ pc[s] = "dbspace_stat"
    /\ pc' = [pc EXCEPT ![s] =
                 IF op[s].oid \in {GLOBALTABLESPACE_OID, DEFAULTTABLESPACE_OID}
                 THEN "commit"
                 ELSE IF DbDirExists(fs, op[s].oid, RelDb(op[s].rel))
                      THEN "rel_file" ELSE "dbspace_lock"]
    /\ UNCHANGED <<pg_tablespace, keyshare, pg_class, nextOid, op, ret,
                   TablespaceCreateLock, fs, wal, forceSync, dispatched, frame>>

(* a creation that goes on without the lock *)
DbspaceLock_free(s) ==
    /\ ~InRecovery /\ pc[s] = "dbspace_lock"
    /\ pc' = [pc EXCEPT ![s] = "dbspace_mkdir"]
    /\ UNCHANGED <<pg_tablespace, keyshare, pg_class, nextOid, op, ret,
                   TablespaceCreateLock, fs, wal, forceSync, dispatched, frame>>

DbspaceLock(s) ==
    /\ ~InRecovery /\ pc[s] = "dbspace_lock"
    /\ TablespaceCreateLock = NoSession
    /\ TablespaceCreateLock' = s
    /\ pc' = [pc EXCEPT ![s] = "dbspace_mkdir"]
    /\ UNCHANGED <<pg_tablespace, keyshare, pg_class, nextOid, op, ret,
                   fs, wal, forceSync, dispatched, frame>>

(* a creation that does not look again once it has the lock: mkdir of a
   directory that is there fails *)
DbspaceMkdir_norecheck(s) ==
    /\ ~InRecovery /\ pc[s] = "dbspace_mkdir"
    /\ LET spcNode == op[s].oid
           dbNode == RelDb(op[s].rel)
       IN  IF DbDirParentExists(fs, spcNode) /\ ~DbDirExists(fs, spcNode, dbNode)
           THEN /\ fs' = [fs EXCEPT !.dbdir =
                                       @ \cup {<<FsDir(fs.link[spcNode]), dbNode>>}]
                /\ pc' = [pc EXCEPT ![s] = "rel_file"]
                /\ UNCHANGED ret
           ELSE /\ pc' = [pc EXCEPT ![s] = "abort"]
                /\ ret' = [ret EXCEPT ![s].err = "file_access"]
                /\ UNCHANGED fs
    /\ TablespaceCreateLock' = NoSession
    /\ UNCHANGED <<pg_tablespace, keyshare, pg_class, nextOid, op,
                   wal, forceSync, dispatched, frame>>

DbspaceMkdir(s) ==
    /\ ~InRecovery /\ pc[s] = "dbspace_mkdir"
    /\ LET spcNode == op[s].oid
           dbNode == RelDb(op[s].rel)
       IN  IF DbDirExists(fs, spcNode, dbNode)
           THEN /\ pc' = [pc EXCEPT ![s] = "rel_file"]
                /\ UNCHANGED <<fs, ret>>
           ELSE IF DbDirParentExists(fs, spcNode)
           THEN /\ fs' = [fs EXCEPT !.dbdir =
                                       @ \cup {<<FsDir(fs.link[spcNode]), dbNode>>}]
                /\ pc' = [pc EXCEPT ![s] = "rel_file"]
                /\ UNCHANGED ret
           ELSE /\ pc' = [pc EXCEPT ![s] = "abort"]
                /\ ret' = [ret EXCEPT ![s].err = "file_access"]
                /\ UNCHANGED fs
    /\ TablespaceCreateLock' = NoSession
    /\ UNCHANGED <<pg_tablespace, keyshare, pg_class, nextOid, op,
                   wal, forceSync, dispatched, frame>>

(* the storage manager creates the relation's file and pg_class row *)
RelFile(s) ==
    /\ ~InRecovery /\ pc[s] = "rel_file"
    /\ IF DbDirExists(fs, op[s].oid, RelDb(op[s].rel))
       THEN /\ fs' = [fs EXCEPT !.relfile[op[s].rel] =
                         [dir |-> FsDir(fs.link[op[s].oid]), state |-> "live"]]
            /\ pg_class' = [pg_class EXCEPT ![op[s].rel] =
                               [spc |-> op[s].oid, xmin |-> s]]
            /\ pc' = [pc EXCEPT ![s] = "commit"]
            /\ UNCHANGED ret
       ELSE /\ pc' = [pc EXCEPT ![s] = "abort"]
            /\ ret' = [ret EXCEPT ![s].err = "file_access"]
            /\ UNCHANGED <<fs, pg_class>>
    /\ UNCHANGED <<pg_tablespace, keyshare, nextOid, op,
                   TablespaceCreateLock, wal, forceSync, dispatched, frame>>

(* DROP TABLE: the row goes, the file stays until the next checkpoint *)
DropRel(r) ==
    /\ ~InRecovery
    /\ pg_class[r] # NoRel /\ pg_class[r].xmin = Committed
    /\ pg_class' = [pg_class EXCEPT ![r] = NoRel]
    /\ fs' = [fs EXCEPT !.relfile[r].state = "unlinked"]
    /\ UNCHANGED <<pg_tablespace, keyshare, nextOid, pc, op, ret,
                   TablespaceCreateLock, wal, forceSync, dispatched, frame>>

(* the checkpointer *)
Checkpoint ==
    /\ ~InRecovery
    /\ CheckpointFs(fs) # fs
    /\ fs' = CheckpointFs(fs)
    /\ UNCHANGED <<pg_tablespace, keyshare, pg_class, nextOid, pc, op, ret,
                   TablespaceCreateLock, wal, forceSync, dispatched, frame>>

----------------------------------------------------------------------------
(* CreateTableSpace *)

(* the checks without the one on the reserved prefix *)
CreateTableSpaceCheck_noreserved(name, rawLocation, user, allowSystemTableMods) ==
    LET location == canonicalize_path(rawLocation)
    IN  IF ~superuser(user) THEN "insufficient_privilege"
        ELSE IF HasQuote(location) THEN "invalid_name"
        ELSE IF ~is_absolute_path(location) THEN "invalid_object_definition"
        ELSE IF LocationTooLong(location) THEN "invalid_object_definition"
        ELSE "ok"

(* the checks before the catalog is touched: the error raised, or "ok" *)
CreateTableSpaceCheck(name, rawLocation, user, allowSystemTableMods) ==
    LET location == canonicalize_path(rawLocation)
    IN  IF ~superuser(user) THEN "insufficient_privilege"
        ELSE IF HasQuote(location) THEN "invalid_name"
        ELSE IF ~is_absolute_path(location) THEN "invalid_object_definition"
        ELSE IF LocationTooLong(location) THEN "invalid_object_definition"
        ELSE IF ~allowSystemTableMods /\ IsReservedName(name) THEN "reserved_name"
        ELSE "ok"

(* getgpsegmentCount(): the number of primary segments of the cluster *)
getgpsegmentCount == 2

Key_content == <<"c", "o", "n", "t", "e", "n", "t">>

(* pg_atoi(s, sizeof(int16), 0): an optional sign and digits *)
pg_atoi(str) ==
    LET neg == Len(str) >= 1 /\ str[1] = "-"
        digits == IF neg THEN Tail(str) ELSE str
        DigitVal(c) == CASE c = "0" -> 0 [] c = "1" -> 1 [] c = "2" -> 2
                         [] c = "3" -> 3 [] c = "4" -> 4 [] c = "5" -> 5
                         [] c = "6" -> 6 [] c = "7" -> 7 [] c = "8" -> 8
                         [] c = "9" -> 9 [] OTHER -> -1
        valid == digits # <<>> /\ \A i \in 1..Len(digits) : DigitVal(digits[i]) >= 0
        Val[i \in 0..Len(digits)] ==
            IF i = 0 THEN 0 ELSE Val[i - 1] * 10 + DigitVal(digits[i])
    IN  [ok |-> valid,
         val |-> IF ~valid THEN 0
                 ELSE IF neg THEN 0 - Val[Len(digits)] ELSE Val[Len(digits)]]

(* overrides that are taken as they come, without a look at the keys *)
SegmentLocation_unchecked(options, role, segindex) ==
    LET NotFound == [found |-> FALSE, location |-> NoLink, err |-> "ok"]
        contentId(defel) == pg_atoi(SubSeq(defel.defname, Len(Key_content) + 1,
                                           Len(defel.defname)))
        From[i \in 1..(Len(options) + 1)] ==
            IF i > Len(options) THEN NotFound
            ELSE IF /\ role # "dispatch" /\ contentId(options[i]).ok
                    /\ contentId(options[i]).val = segindex
            THEN [found |-> TRUE, location |-> options[i].arg, err |-> "ok"]
            ELSE From[i + 1]
    IN  From[1]

(* the loop over stmt->options, From[i] being its outcome from the i-th
   option on: the location of the first override whose content ID is
   GpIdentity.segindex, if any, and the error raised *)
SegmentLocation(options, role, segindex) ==
    LET NotFound == [found |-> FALSE, location |-> NoLink, err |-> "ok"]
        Raise(e) == [found |-> FALSE, location |-> NoLink, err |-> e]
        isContent(defel) ==
            /\ Len(defel.defname) > Len(Key_content)
            /\ SubSeq(defel.defname, 1, Len(Key_content)) = Key_content
        contentId(defel) == pg_atoi(SubSeq(defel.defname, Len(Key_content) + 1,
                                           Len(defel.defname)))
        From[i \in 1..(Len(options) + 1)] ==
            IF i > Len(options) THEN NotFound
            ELSE IF ~isContent(options[i]) THEN Raise("syntax_error")
            ELSE IF ~contentId(options[i]).ok
            THEN Raise("invalid_text_representation")
            ELSE IF role = "dispatch"
            THEN IF \/ contentId(options[i]).val < 0
                    \/ contentId(options[i]).val >= getgpsegmentCount
                 THEN Raise("syntax_error")
                 ELSE From[i + 1]
            ELSE IF contentId(options[i]).val = segindex
            THEN [found |-> TRUE, location |-> options[i].arg, err |-> "ok"]
            ELSE From[i + 1]
    IN  From[1]

(* CREATE TABLESPACE name LOCATION rawLocation WITH (options), run by the
   process whose GpIdentity.segindex is segindex *)
CreateTableSpaceStmt(s, name, options, segindex, rawLocation, owner, user, allowSystemTableMods) ==
    /\ ~InRecovery /\ pc[s] = "idle"
    /\ WalRoom /\ OidRoom
    /\ LET override == SegmentLocation(options, Gp_role, segindex)
           \* if (!location) location = pstrdup(stmt->location)
           location == IF override.found THEN override.location ELSE rawLocation
           err == IF ~superuser(user) THEN "insufficient_privilege"
                  ELSE IF override.err # "ok" THEN override.err
                  ELSE CreateTableSpaceCheck(name, location, user,
                                             allowSystemTableMods)
           found == get_tablespace_oid_scan(pg_tablespace, s, name)
       IN  /\ op' = [op EXCEPT ![s] =
                        [kind |-> "create", name |-> name,
                         options |-> options, segindex |-> segindex,
                         rawLocation |-> rawLocation,
                         location |-> canonicalize_path(location),
                         owner |-> IF owner = NoOwner THEN user ELSE owner,
                         user |-> user,
                         allowSystemTableMods |-> allowSystemTableMods,
                         oid |-> IF err = "ok" THEN found ELSE InvalidOid,
                         stale |-> FALSE]]
           /\ pc' = [pc EXCEPT ![s] =
                        IF err # "ok" THEN "abort"
                        ELSE IF OidIsValid(found) THEN "create_lock"
                        ELSE "create_insert"]
           /\ ret' = [ret EXCEPT ![s] = [err |-> IF err # "ok" THEN err ELSE "none",
                                         oid |-> InvalidOid]]
    /\ UNCHANGED <<pg_tablespace, keyshare, pg_class, nextOid,
                   TablespaceCreateLock, fs, wal, forceSync, dispatched, frame>>

(* CREATE TABLESPACE without segment-level overrides *)
CreateBegin(s, name, rawLocation, owner, user, allowSystemTableMods) ==
    CreateTableSpaceStmt(s, name, <<>>, IF Gp_role = "dispatch" THEN -1 ELSE 0,
                         rawLocation, owner, user, allowSystemTableMods)

(* get_tablespace_oid(name, true) found a row: lock it, then complain *)
CreateLock(s) ==
    /\ ~InRecovery /\ pc[s] = "create_lock"
    /\ ~heap_lock_tuple_waits(s, op[s].oid)
    /\ keyshare' = IF op[s].stale THEN keyshare
                   ELSE keyshare \cup KeyShareLock(s, op[s].oid)
    /\ ret' = [ret EXCEPT ![s].err = IF op[s].stale THEN "serialization_failure"
                                     ELSE "duplicate_object"]
    /\ pc' = [pc EXCEPT ![s] = "abort"]
    /\ UNCHANGED <<pg_tablespace, pg_class, nextOid, op,
                   TablespaceCreateLock, fs, wal, forceSync, dispatched, frame>>

(* an index that is not unique accepts every entry *)
CatalogUpdateIndexes_nonunique(s, name, self) == "ok"

(* CatalogUpdateIndexes: the unique index on spcname has the last word *)
CatalogUpdateIndexes(s, name, self) ==
    IF unique_check_fails(s, name, self) THEN "unique_violation" ELSE "ok"

(* simple_heap_insert returns the OID it assigned to the new row *)
simple_heap_insert(oidCounter) == oidCounter

(* simple_heap_insert + CatalogUpdateIndexes *)
CreateInsert(s) ==
    /\ ~InRecovery /\ pc[s] = "create_insert"
    /\ ~unique_check_waits(s, op[s].name, InvalidOid)
    /\ nextOid' = nextOid + 1
    /\ IF CatalogUpdateIndexes(s, op[s].name, InvalidOid) # "ok"
       THEN /\ pc' = [pc EXCEPT ![s] = "abort"]
            /\ ret' = [ret EXCEPT ![s].err =
                          CatalogUpdateIndexes(s, op[s].name, InvalidOid)]
            /\ UNCHANGED <<pg_tablespace, op>>
       ELSE /\ pg_tablespace' = pg_tablespace \cup
                   {heap_form_tuple(nextOid, op[s].name, op[s].owner, s)}
            /\ op' = [op EXCEPT ![s].oid = simple_heap_insert(nextOid)]
            /\ ret' = [ret EXCEPT ![s].oid = simple_heap_insert(nextOid)]
            /\ pc' = [pc EXCEPT ![s] = "create_dirs"]
    /\ UNCHANGED <<keyshare, pg_class, TablespaceCreateLock, fs, wal,
                   forceSync, dispatched, frame>>

XLogCreate(tablespaceoid, location) ==
    [info |-> "XLOG_TBLSPC_CREATE", ts_id |-> tablespaceoid,
     ts_path |-> location]

(* a drop record that does not name the tablespace *)
XLogDrop_noid(tablespaceoid) ==
    [info |-> "XLOG_TBLSPC_DROP", ts_id |-> InvalidOid,
     ts_path |-> NoLink]

XLogDrop(tablespaceoid) ==
    [info |-> "XLOG_TBLSPC_DROP", ts_id |-> tablespaceoid,
     ts_path |-> NoLink]

(* a Create that goes on after create_tablespace_directories failed *)
CreateDirs_nocheck(s) ==
    /\ ~InRecovery /\ pc[s] = "create_dirs"
    /\ LET out == create_tablespace_directories(fs, op[s].location,
                                                op[s].oid, FALSE)
       IN  /\ fs' = out.fs
           /\ wal' = Append(wal, XLogCreate(op[s].oid, op[s].location))
           /\ forceSync' = [forceSync EXCEPT ![s] = TRUE]
           /\ pc' = [pc EXCEPT ![s] = AfterLocal(s)]
           /\ ret' = [ret EXCEPT ![s].err =
                         IF Gp_role = "dispatch" THEN "none" ELSE "ok"]
    /\ UNCHANGED <<pg_tablespace, keyshare, pg_class, nextOid, op,
                   TablespaceCreateLock, dispatched, frame>>

(* create_tablespace_directories, XLogInsert, ForceSyncCommit *)
CreateDirs(s) ==
    /\ ~InRecovery /\ pc[s] = "create_dirs"
    /\ LET out == create_tablespace_directories(fs, op[s].location,
                                                op[s].oid, FALSE)
       IN  /\ fs' = out.fs
           /\ IF out.err = "ok"
              THEN /\ wal' = Append(wal, XLogCreate(op[s].oid, op[s].location))
                   /\ forceSync' = [forceSync EXCEPT ![s] = TRUE]
                   /\ pc' = [pc EXCEPT ![s] = AfterLocal(s)]
                   /\ ret' = [ret EXCEPT ![s].err =
                                 IF Gp_role = "dispatch" THEN "none" ELSE "ok"]
              ELSE /\ pc' = [pc EXCEPT ![s] = "abort"]
                   /\ ret' = [ret EXCEPT ![s].err = out.err]
                   /\ UNCHANGED <<wal, forceSync>>
    /\ UNCHANGED <<pg_tablespace, keyshare, pg_class, nextOid, op,
                   TablespaceCreateLock, dispatched, frame>>

(* a dispatch that goes on after an error on a worker *)
Dispatch_ignore(s, workersOk) ==
    /\ ~InRecovery /\ pc[s] = "dispatch"
    /\ dispatched' = [dispatched EXCEPT ![s] = TRUE]
    /\ pc' = [pc EXCEPT ![s] = "commit"]
    /\ ret' = [ret EXCEPT ![s].err = IF workersOk THEN "ok" ELSE "dispatch_error"]
    /\ UNCHANGED <<pg_tablespace, keyshare, pg_class, nextOid, op,
                   TablespaceCreateLock, fs, wal, forceSync, frame>>

(* CdbDispatchUtilityStatement with DF_CANCEL_ON_ERROR: an error on a
   worker is raised on the coordinator *)
Dispatch(s, workersOk) ==
    /\ ~InRecovery /\ pc[s] = "dispatch"
    /\ dispatched' = [dispatched EXCEPT ![s] = TRUE]
    /\ pc' = [pc EXCEPT ![s] = IF workersOk THEN "commit" ELSE "abort"]
    /\ ret' = [ret EXCEPT ![s].err = IF workersOk THEN "ok" ELSE "dispatch_error"]
    /\ UNCHANGED <<pg_tablespace, keyshare, pg_class, nextOid, op,
                   TablespaceCreateLock, fs, wal, forceSync, frame>>

----------------------------------------------------------------------------
(* DropTableSpace *)

(* a check that takes no notice of missing_ok *)
DropTableSpaceCheck_strict(cat, s, tuple, user, missing_ok) ==
    IF ~HeapTupleIsValid(tuple) THEN "undefined_object"
    ELSE IF ~pg_tablespace_ownercheck(cat, s, tuple.oid, user) THEN "not_owner"
    ELSE IF tuple.oid = GLOBALTABLESPACE_OID \/ tuple.oid = DEFAULTTABLESPACE_OID
    THEN "no_priv"
    ELSE "ok"

DropTableSpaceCheck(cat, s, tuple, user, missing_ok) ==
    IF ~HeapTupleIsValid(tuple)
    THEN IF missing_ok THEN "skipped" ELSE "undefined_object"
    ELSE IF ~pg_tablespace_ownercheck(cat, s, tuple.oid, user) THEN "not_owner"
    ELSE IF tuple.oid = GLOBALTABLESPACE_OID \/ tuple.oid = DEFAULTTABLESPACE_OID
    THEN "no_priv"
    ELSE "ok"

DropBegin(s, name, missing_ok, user) ==
    /\ ~InRecovery /\ pc[s] = "idle"
    /\ WalRoom
    /\ LET tuple == ScanByName(pg_tablespace, s, name)
           err == DropTableSpaceCheck(pg_tablespace, s, tuple, user, missing_ok)
       IN  /\ op' = [op EXCEPT ![s] = [kind |-> "drop", name |-> name,
                                       missing_ok |-> missing_ok, user |-> user,
                                       oid |-> tuple.oid, stale |-> FALSE]]
           /\ pc' = [pc EXCEPT ![s] = IF err = "ok" THEN "drop_delete"
                                      ELSE IF err = "skipped" THEN "commit"
                                      ELSE "abort"]
           /\ ret' = [ret EXCEPT ![s] = [err |-> IF err = "ok" THEN "none" ELSE err,
                                         oid |-> InvalidOid]]
    /\ UNCHANGED <<pg_tablespace, keyshare, pg_class, nextOid,
                   TablespaceCreateLock, fs, wal, forceSync, dispatched, frame>>

(* a deletion that leaves the row alone *)
simple_heap_delete_noop(cat, s, oid) == cat

(* simple_heap_delete: the row version gets this transaction as its xmax *)
simple_heap_delete(cat, s, oid) ==
    {IF t.oid = oid /\ Visible(cat, s, t) THEN [t EXCEPT !.xmax = s] ELSE t :
         t \in cat}

DropDelete(s) ==
    /\ ~InRecovery /\ pc[s] = "drop_delete"
    /\ ~heap_delete_waits(s, op[s].oid)
    /\ IF op[s].stale
       THEN /\ pc' = [pc EXCEPT ![s] = "abort"]
            /\ ret' = [ret EXCEPT ![s].err = "tuple_concurrently_updated"]
            /\ UNCHANGED pg_tablespace
       ELSE /\ pg_tablespace' = simple_heap_delete(pg_tablespace, s, op[s].oid)
            /\ pc' = [pc EXCEPT ![s] = "drop_lwlock"]
            /\ UNCHANGED ret
    /\ UNCHANGED <<keyshare, pg_class, nextOid, op,
                   TablespaceCreateLock, fs, wal, forceSync, dispatched, frame>>

(* a Drop that goes on without the lock *)
DropAcquire_nolock(s) ==
    /\ ~InRecovery /\ pc[s] = "drop_lwlock"
    /\ pc' = [pc EXCEPT ![s] = "drop_destroy"]
    /\ UNCHANGED <<pg_tablespace, keyshare, pg_class, nextOid, op, ret,
                   TablespaceCreateLock, fs, wal, forceSync, dispatched, frame>>

(* LWLockAcquire(TablespaceCreateLock, LW_EXCLUSIVE) *)
DropAcquire(s) ==
    /\ ~InRecovery /\ pc[s] = "drop_lwlock"
    /\ TablespaceCreateLock = NoSession
    /\ TablespaceCreateLock' = s
    /\ pc' = [pc EXCEPT ![s] = "drop_destroy"]
    /\ UNCHANGED <<pg_tablespace, keyshare, pg_class, nextOid, op, ret,
                   fs, wal, forceSync, dispatched, frame>>

(* a Drop that does not look at the result *)
DropRetryVerdict_ok(result) == "ok"

(* what DropTableSpace does with the result of the second
   destroy_tablespace_directories: go on, or raise "is not empty" *)
DropRetryVerdict(result) == IF result THEN "ok" ELSE "object_not_in_prerequisite_state"

(* a request that the checkpointer does not serve *)
RequestCheckpoint_none(f) == f

(* RequestCheckpoint(CHECKPOINT_IMMEDIATE | CHECKPOINT_FORCE | CHECKPOINT_WAIT) *)
RequestCheckpoint(f) == CheckpointFs(f)

(* the first destroy_tablespace_directories; on FALSE, RequestCheckpoint *)
DropDestroy(s) ==
    /\ ~InRecovery /\ pc[s] = "drop_destroy"
    /\ \E out \in destroy_tablespace_directories(fs, op[s].oid, FALSE) :
         IF out.err # "ok"
         THEN /\ fs' = out.fs
              /\ TablespaceCreateLock' = NoSession
              /\ pc' = [pc EXCEPT ![s] = "abort"]
              /\ ret' = [ret EXCEPT ![s].err = out.err]
              /\ UNCHANGED <<wal, forceSync>>
         ELSE IF out.result
         THEN /\ fs' = out.fs
              /\ wal' = Append(wal, XLogDrop(op[s].oid))
              /\ forceSync' = [forceSync EXCEPT ![s] = TRUE]
              /\ TablespaceCreateLock' = NoSession
              /\ pc' = [pc EXCEPT ![s] = AfterLocal(s)]
              /\ ret' = [ret EXCEPT ![s].err =
                            IF Gp_role = "dispatch" THEN "none" ELSE "ok"]
         ELSE /\ fs' = RequestCheckpoint(out.fs)
              /\ pc' = [pc EXCEPT ![s] = "drop_retry"]
              /\ UNCHANGED <<wal, forceSync, TablespaceCreateLock, ret>>
    /\ UNCHANGED <<pg_tablespace, keyshare, pg_class, nextOid, op,
                   dispatched, frame>>

(* a retry whose error leaves the lock to its holder *)
DropRetry_hold(s) ==
    /\ ~InRecovery /\ pc[s] = "drop_retry"
    /\ \E out \in destroy_tablespace_directories(fs, op[s].oid, FALSE) :
         /\ fs' = out.fs
         /\ IF out.err # "ok"
            THEN /\ pc' = [pc EXCEPT ![s] = "abort"]
                 /\ ret' = [ret EXCEPT ![s].err = out.err]
                 /\ UNCHANGED <<wal, forceSync, TablespaceCreateLock>>
            ELSE IF DropRetryVerdict(out.result) = "ok"
            THEN /\ wal' = Append(wal, XLogDrop(op[s].oid))
                 /\ forceSync' = [forceSync EXCEPT ![s] = TRUE]
                 /\ TablespaceCreateLock' = NoSession
                 /\ pc' = [pc EXCEPT ![s] = AfterLocal(s)]
                 /\ ret' = [ret EXCEPT ![s].err =
                               IF Gp_role = "dispatch" THEN "none" ELSE "ok"]
            ELSE /\ pc' = [pc EXCEPT ![s] = "abort"]
                 /\ ret' = [ret EXCEPT ![s].err = DropRetryVerdict(out.result)]
                 /\ UNCHANGED <<wal, forceSync, TablespaceCreateLock>>
    /\ UNCHANGED <<pg_tablespace, keyshare, pg_class, nextOid, op,
                   dispatched, frame>>

(* the second destroy_tablespace_directories, after the checkpoint *)
DropRetry(s) ==
    /\ ~InRecovery /\ pc[s] = "drop_retry"
    /\ \E out \in destroy_tablespace_directories(fs, op[s].oid, FALSE) :
         /\ fs' = out.fs
         /\ IF out.err # "ok"
            THEN /\ pc' = [pc EXCEPT ![s] = "abort"]
                 /\ ret' = [ret EXCEPT ![s].err = out.err]
                 /\ UNCHANGED <<wal, forceSync>>
            ELSE IF DropRetryVerdict(out.result) = "ok"
            THEN /\ wal' = Append(wal, XLogDrop(op[s].oid))
                 /\ forceSync' = [forceSync EXCEPT ![s] = TRUE]
                 /\ pc' = [pc EXCEPT ![s] = AfterLocal(s)]
                 /\ ret' = [ret EXCEPT ![s].err =
                               IF Gp_role = "dispatch" THEN "none" ELSE "ok"]
            ELSE /\ pc' = [pc EXCEPT ![s] = "abort"]
                 /\ ret' = [ret EXCEPT ![s].err = DropRetryVerdict(out.result)]
                 /\ UNCHANGED <<wal, forceSync>>
    /\ TablespaceCreateLock' = NoSession
    /\ UNCHANGED <<pg_tablespace, keyshare, pg_class, nextOid, op,
                   dispatched, frame>>

----------------------------------------------------------------------------
(* RenameTableSpace *)

(* a check of the new name that passes over the row being renamed *)
RenameTableSpaceCheck_others(cat, s, oldname, newname, user, allowSystemTableMods) ==
    LET tup == ScanByName(cat, s, oldname)
    IN  IF ~HeapTupleIsValid(tup) THEN "undefined_object"
        ELSE IF ~pg_tablespace_ownercheck(cat, s, tup.oid, user) THEN "no_priv"
        ELSE IF ~allowSystemTableMods /\ IsReservedName(newname) THEN "reserved_name"
        ELSE IF /\ HeapTupleIsValid(ScanByName(cat, s, newname))
                /\ ScanByName(cat, s, newname).oid # tup.oid
        THEN "duplicate_object"
        ELSE "ok"

RenameTableSpaceCheck(cat, s, oldname, newname, user, allowSystemTableMods) ==
    LET tup == ScanByName(cat, s, oldname)
    IN  IF ~HeapTupleIsValid(tup) THEN "undefined_object"
        ELSE IF ~pg_tablespace_ownercheck(cat, s, tup.oid, user) THEN "no_priv"
        ELSE IF ~allowSystemTableMods /\ IsReservedName(newname) THEN "reserved_name"
        ELSE IF HeapTupleIsValid(ScanByName(cat, s, newname)) THEN "duplicate_object"
        ELSE "ok"

RenameBegin(s, oldname, newname, user, allowSystemTableMods) ==
    /\ ~InRecovery /\ pc[s] = "idle"
    /\ LET tup == ScanByName(pg_tablespace, s, oldname)
           err == RenameTableSpaceCheck(pg_tablespace, s, oldname, newname, user,
                                        allowSystemTableMods)
       IN  /\ op' = [op EXCEPT ![s] = [kind |-> "rename", name |-> oldname,
                                       newname |-> newname, user |-> user,
                                       allowSystemTableMods |->
                                           allowSystemTableMods,
                                       oid |-> tup.oid, owner |-> tup.spcowner,
                                       stale |-> FALSE]]
           /\ pc' = [pc EXCEPT ![s] = IF err = "ok" THEN "rename_update" ELSE "abort"]
           /\ ret' = [ret EXCEPT ![s] = [err |-> IF err = "ok" THEN "none" ELSE err,
                                         oid |-> InvalidOid]]
    /\ UNCHANGED <<pg_tablespace, keyshare, pg_class, nextOid,
                   TablespaceCreateLock, fs, wal, forceSync, dispatched, frame>>

(* an update that forms the new row for the current user *)
RenameUpdate_asuser(s) ==
    /\ ~InRecovery /\ pc[s] = "rename_update"
    /\ ~heap_delete_waits(s, op[s].oid)
    /\ IF op[s].stale
       THEN /\ pc' = [pc EXCEPT ![s] = "abort"]
            /\ ret' = [ret EXCEPT ![s].err = "tuple_concurrently_updated"]
            /\ UNCHANGED pg_tablespace
       ELSE /\ pg_tablespace' =
                   simple_heap_delete(pg_tablespace, s, op[s].oid) \cup
                   {heap_form_tuple(op[s].oid, op[s].newname, op[s].user, s)}
            /\ pc' = [pc EXCEPT ![s] = "rename_index"]
            /\ UNCHANGED ret
    /\ UNCHANGED <<keyshare, pg_class, nextOid, op,
                   TablespaceCreateLock, fs, wal, forceSync, dispatched, frame>>

(* simple_heap_update: the old version gets xmax, the new one is added *)
RenameUpdate(s) ==
    /\ ~InRecovery /\ pc[s] = "rename_update"
    /\ ~heap_delete_waits(s, op[s].oid)
    /\ IF op[s].stale
       THEN /\ pc' = [pc EXCEPT ![s] = "abort"]
            /\ ret' = [ret EXCEPT ![s].err = "tuple_concurrently_updated"]
            /\ UNCHANGED pg_tablespace
       ELSE /\ pg_tablespace' =
                   simple_heap_delete(pg_tablespace, s, op[s].oid) \cup
                   {heap_form_tuple(op[s].oid, op[s].newname, op[s].owner, s)}
            /\ pc' = [pc EXCEPT ![s] = "rename_index"]
            /\ UNCHANGED ret
    /\ UNCHANGED <<keyshare, pg_class, nextOid, op,
                   TablespaceCreateLock, fs, wal, forceSync, dispatched, frame>>

RenameIndex(s) ==
    /\ ~InRecovery /\ pc[s] = "rename_index"
    /\ ~unique_check_waits(s, op[s].newname, op[s].oid)
    /\ LET err == CatalogUpdateIndexes(s, op[s].newname, op[s].oid)
       IN  /\ pc' = [pc EXCEPT ![s] = IF err = "ok" THEN "commit" ELSE "abort"]
           /\ ret' = [ret EXCEPT ![s] = [err |-> err, oid |-> op[s].oid]]
    /\ UNCHANGED <<pg_tablespace, keyshare, pg_class, nextOid, op,
                   TablespaceCreateLock, fs, wal, forceSync, dispatched, frame>>

----------------------------------------------------------------------------
(* Transaction end *)

(* sessions that scanned a row which the ending transaction changed *)
MadeStale(s) ==
    LET changed == {t.oid : t \in {u \in pg_tablespace : u.xmax = s}}
    IN  [w \in Sessions |->
            IF w # s /\ pc[w] \in ScannedPcs /\ op[w].oid \in changed
            THEN [op[w] EXCEPT !.stale = TRUE]
            ELSE IF w = s THEN NoOp ELSE op[w]]

CommitTransaction(s) ==
    /\ ~InRecovery /\ pc[s] = "commit"
    /\ pg_tablespace' = CommitTuples(pg_tablespace, s)
    /\ pg_class' = [r \in Rels |->
                       IF pg_class[r].xmin = s
                       THEN [pg_class[r] EXCEPT !.xmin = Committed]
                       ELSE pg_class[r]]
    /\ keyshare' = {l \in keyshare : l[1] # s}
    /\ op' = MadeStale(s)
    /\ pc' = [pc EXCEPT ![s] = "idle"]
    /\ ret' = [ret EXCEPT ![s] = NoRet]
    /\ forceSync' = [forceSync EXCEPT ![s] = FALSE]
    /\ dispatched' = [dispatched EXCEPT ![s] = FALSE]
    /\ UNCHANGED <<nextOid, TablespaceCreateLock, fs, wal, frame>>

AbortTransaction(s) ==
    /\ ~InRecovery /\ pc[s] = "abort"
    /\ pg_tablespace' = AbortTuples(pg_tablespace, s)
    /\ pg_class' = [r \in Rels |->
                       IF pg_class[r].xmin = s THEN NoRel ELSE pg_class[r]]
    /\ fs' = [fs EXCEPT !.relfile = [r \in Rels |->
                 IF pg_class[r].xmin = s THEN [@[r] EXCEPT !.state = "unlinked"]
                 ELSE @[r]]]
    /\ keyshare' = {l \in keyshare : l[1] # s}
    /\ op' = [op EXCEPT ![s] = NoOp]
    /\ pc' = [pc EXCEPT ![s] = "idle"]
    /\ ret' = [ret EXCEPT ![s] = NoRet]
    /\ forceSync' = [forceSync EXCEPT ![s] = FALSE]
    /\ dispatched' = [dispatched EXCEPT ![s] = FALSE]
    /\ walAborted' = (walAborted \/ forceSync[s])
    /\ UNCHANGED <<nextOid, TablespaceCreateLock, wal, frame0>>

----------------------------------------------------------------------------

(* The statements a session may issue: a menu names the input sets *)
SessionNext(s, M) ==
    \/ \E name \in M.lookupNames, missing_ok \in M.missingOk,
          rel \in M.rels \cup {"none"} :
           LookupScan(s, name, missing_ok, rel)
    \/ LookupLock(s)
    \/ DbspaceStat(s)
    \/ DbspaceLock(s)
    \/ DbspaceMkdir(s)
    \/ RelFile(s)
    \/ \E name \in M.createNames, loc \in M.paths, owner \in M.owners,
          user \in M.users, mods \in M.mods :
           CreateBegin(s, name, loc, owner, user, mods)
    \/ CreateLock(s)
    \/ CreateInsert(s)
    \/ CreateDirs(s)
    \/ \E name \in M.dropNames, missing_ok \in M.missingOk, user \in M.users :
           DropBegin(s, name, missing_ok, user)
    \/ DropDelete(s)
    \/ DropAcquire(s)
    \/ DropDestroy(s)
    \/ DropRetry(s)
    \/ \E oldname \in M.renameOld, newname \in M.renameNew, user \in M.users,
          mods \in M.mods :
           RenameBegin(s, oldname, newname, user, mods)
    \/ RenameUpdate(s)
    \/ RenameIndex(s)
    \/ CommitTransaction(s)
    \/ AbortTransaction(s)

(* every kind of statement and input, one session, on a coordinator *)
FullMenu ==
    [lookupNames |-> {Name_ts1}, missingOk |-> BOOLEAN,
     rels |-> {"r1"},
     createNames |-> {Name_ts1, Name_pg_x}, paths |-> Paths,
     owners |-> {NoOwner, "u1"}, users |-> Users, mods |-> BOOLEAN,
     dropNames |-> {Name_ts1, Name_pg_default, Name_pg_global},
     renameOld |-> {Name_ts1, Name_pg_default},
     renameNew |-> {Name_ts2, Name_pg_x}]

(* the statements of concurrent sessions: superuser, well-formed *)
SmallMenu ==
    [lookupNames |-> {Name_ts1, Name_pg_global}, missingOk |-> {FALSE}, rels |-> {"r1"},
     createNames |-> {Name_ts1, Name_ts2}, paths |-> {Path_a, Path_b},
     owners |-> {NoOwner}, users |-> {"su"}, mods |-> {FALSE},
     dropNames |-> {Name_ts1, Name_ts2}, renameOld |-> {Name_ts1},
     renameNew |-> {Name_ts2}]

(* concurrent sessions on a single node *)
Init == InitRole("utility") /\ InitAux

Next ==
    \/ \E s \in Sessions : SessionNext(s, SmallMenu)
    \/ \E r \in Rels : DropRel(r)
    \/ Checkpoint

Spec == Init /\ [][Next]_vars

(* one session on a coordinator that dispatches to its workers *)
InitSeq == InitRole("dispatch") /\ InitAux

NextSeq ==
    \/ SessionNext("s1", FullMenu)
    \/ \E workersOk \in BOOLEAN : Dispatch("s1", workersOk)
    \/ \E r \in Rels : DropRel(r)
    \/ Checkpoint

SpecSeq == InitSeq /\ [][NextSeq]_vars

----------------------------------------------------------------------------
(* The GUC temp_tablespaces and PrepareTempTablespaces *)

MaxCalls == 2

(* the user whose transactions prepare temporary tablespaces *)
TempUsers == {"u1"}

MyDatabaseTableSpace == DEFAULTTABLESPACE_OID

Separator == <<",">>
Quote == <<"\"">>

(* values of temp_tablespaces somebody may try to set *)
Guc_two == Name_ts2 \o Separator \o Name_ts1
Guc_quoted == Quote \o Quote \o Separator \o Name_ts1
Guc_default == Name_pg_default \o Separator \o Name_ts1
Guc_syntax == Name_ts1 \o Separator \o Separator \o Name_ts2
TempGucs == {<<>>, Guc_two, Guc_quoted, Guc_default, Guc_syntax}

(* the first index from i on at which raw has character c, or Len(raw) + 1 *)
IndexFrom(raw, i, c) ==
    LET hits == {j \in i..Len(raw) : raw[j] = c}
    IN  IF hits = {} THEN Len(raw) + 1
        ELSE CHOOSE j \in hits : \A k \in hits : j <= k

(* SplitIdentifierString from the start of an identifier at index i: a
   quoted name runs to the closing quote, an unquoted one to the separator
   and may not be empty; after a name comes the separator or the end *)
RECURSIVE SplitFrom(_, _)
SplitFrom(raw, i) ==
    LET quoted == i <= Len(raw) /\ raw[i] = Quote[1]
        endq == IndexFrom(raw, i + 1, Quote[1])
        endp == IF quoted THEN endq ELSE IndexFrom(raw, i, Separator[1])
        curname == IF quoted THEN SubSeq(raw, i + 1, endp - 1)
                   ELSE SubSeq(raw, i, endp - 1)
        nextp == IF quoted THEN endp + 1 ELSE endp
        fail == [ok |-> FALSE, list |-> <<>>]
    IN  IF quoted /\ endq > Len(raw) THEN fail
        ELSE IF ~quoted /\ curname = <<>> THEN fail
        ELSE IF nextp > Len(raw) THEN [ok |-> TRUE, list |-> <<curname>>]
        ELSE IF raw[nextp] # Separator[1] THEN fail
        ELSE LET rest == SplitFrom(raw, nextp + 1)
             IN  IF rest.ok THEN [ok |-> TRUE, list |-> <<curname>> \o rest.list]
                 ELSE fail

SplitIdentifierString(raw) ==
    IF raw = <<>> THEN [ok |-> TRUE, list |-> <<>>] ELSE SplitFrom(raw, 1)

(* check_temp_tablespaces outside a transaction: only the syntax is checked *)
check_temp_tablespaces(newval) == SplitIdentifierString(newval).ok

(* pg_tablespace_aclcheck(curoid, GetUserId(), ACL_CREATE); no privilege
   has been granted to anybody but the owner *)
pg_tablespace_aclcheck(cat, s, oid, user) ==
    pg_tablespace_ownercheck(cat, s, oid, user)

(* a test that never finds the list *)
TempTablespacesAreSet_never(t) == FALSE

TempTablespacesAreSet(t) == t.set

(* SetTempTablespaces(tblSpcs, numSpcs) *)
SetTempTablespaces(t, tblSpcs) ==
    [t EXCEPT !.set = TRUE, !.spcs = tblSpcs, !.namelist = <<>>, !.pos = 1,
              !.acc = <<>>]

(* a transaction with temp_tablespaces set *)
InitTemp ==
    /\ InitRole("utility")
    /\ \E g \in {v \in TempGucs : check_temp_tablespaces(v)} :
          temp = [NoTemp EXCEPT !.guc = g]
    /\ relLocks = {}

(* PrepareTempTablespaces is called, for the first time in a transaction
   of user (from idle) or again: return if the list is set, else split
   the value *)
TempCall(s, user) ==
    /\ ~InRecovery /\ pc[s] \in {"idle", "temp_ready"}
    /\ temp.calls < MaxCalls
    /\ pc[s] = "temp_ready" => user = temp.user
    /\ LET t == [temp EXCEPT !.calls = @ + 1, !.user = user]
           split == SplitIdentifierString(temp.guc)
       IN  IF TempTablespacesAreSet(temp)
           THEN temp' = t /\ pc' = [pc EXCEPT ![s] = "temp_ready"]
           ELSE IF ~split.ok
           THEN /\ temp' = SetTempTablespaces(t, <<>>)
                /\ pc' = [pc EXCEPT ![s] = "temp_ready"]
           ELSE /\ temp' = [t EXCEPT !.namelist = split.list, !.pos = 1,
                                     !.acc = <<>>]
                /\ pc' = [pc EXCEPT ![s] = "temp_entry"]
    /\ UNCHANGED <<pg_tablespace, keyshare, pg_class, nextOid, op, ret,
                   TablespaceCreateLock, fs, wal, walAborted, forceSync,
                   dispatched, Gp_role, redoVars, backup, snap, relLocks>>

(* the loop over the names: the next name up to the scan of
   get_tablespace_oid(curname, true), or SetTempTablespaces at the end *)
TempEntry(s) ==
    /\ ~InRecovery /\ pc[s] = "temp_entry"
    /\ IF temp.pos > Len(temp.namelist)
       THEN /\ temp' = SetTempTablespaces(temp, temp.acc)
            /\ pc' = [pc EXCEPT ![s] = "temp_ready"]
            /\ UNCHANGED op
       ELSE LET curname == temp.namelist[temp.pos]
                curoid == get_tablespace_oid_scan(pg_tablespace, s, curname)
            IN  IF curname = <<>>
                THEN /\ temp' = [temp EXCEPT !.acc = Append(@, InvalidOid),
                                             !.pos = @ + 1]
                     /\ UNCHANGED <<pc, op>>
                ELSE IF curoid = InvalidOid
                THEN /\ temp' = [temp EXCEPT !.pos = @ + 1]
                     /\ UNCHANGED <<pc, op>>
                ELSE /\ op' = [op EXCEPT ![s] =
                                  [kind |-> "lookup", name |-> curname,
                                   missing_ok |-> TRUE, rel |-> "none",
                                   oid |-> curoid, stale |-> FALSE]]
                     /\ pc' = [pc EXCEPT ![s] = "temp_lock"]
                     /\ UNCHANGED temp
    /\ UNCHANGED <<pg_tablespace, keyshare, pg_class, nextOid, ret,
                   TablespaceCreateLock, fs, wal, walAborted, forceSync,
                   dispatched, Gp_role, redoVars, backup, snap, relLocks>>

(* the tuple lock of get_tablespace_oid and the rest of the loop body *)
TempLock(s) ==
    /\ ~InRecovery /\ pc[s] = "temp_lock"
    /\ ~heap_lock_tuple_waits(s, op[s].oid)
    /\ IF op[s].stale
       THEN /\ pc' = [pc EXCEPT ![s] = "temp_error"]
            /\ ret' = [ret EXCEPT ![s] = [err |-> "serialization_failure",
                                          oid |-> InvalidOid]]
            /\ UNCHANGED <<keyshare, temp>>
       ELSE /\ keyshare' = keyshare \cup KeyShareLock(s, op[s].oid)
            /\ pc' = [pc EXCEPT ![s] = "temp_entry"]
            /\ temp' = [temp EXCEPT
                  !.pos = @ + 1,
                  !.acc = IF op[s].oid = MyDatabaseTableSpace
                          THEN Append(@, InvalidOid)
                          ELSE IF ~pg_tablespace_aclcheck(pg_tablespace, s,
                                                          op[s].oid, temp.user)
                          THEN @
                          ELSE Append(@, op[s].oid)]
            /\ UNCHANGED ret
    /\ UNCHANGED <<pg_tablespace, pg_class, nextOid, op,
                   TablespaceCreateLock, fs, wal, walAborted, forceSync,
                   dispatched, Gp_role, redoVars, backup, snap, relLocks>>

(* the transaction ends: the list and the tuple locks are gone *)
TempEnd(s) ==
    /\ ~InRecovery /\ pc[s] \in {"temp_ready", "temp_error"}
    /\ pc' = [pc EXCEPT ![s] = "idle"]
    /\ op' = [op EXCEPT ![s] = NoOp]
    /\ ret' = [ret EXCEPT ![s] = NoRet]
    /\ keyshare' = {l \in keyshare : l[1] # s}
    /\ temp' = [temp EXCEPT !.set = FALSE, !.spcs = <<>>, !.namelist = <<>>,
                            !.pos = 1, !.acc = <<>>]
    /\ UNCHANGED <<pg_tablespace, pg_class, nextOid,
                   TablespaceCreateLock, fs, wal, walAborted, forceSync,
                   dispatched, Gp_role, redoVars, backup, snap, relLocks>>

TempMenu ==
    [lookupNames |-> {Name_ts1}, missingOk |-> {FALSE}, rels |-> {"r1"},
     createNames |-> {Name_ts1, Name_ts2}, paths |-> {Path_a, Path_b},
     owners |-> {NoOwner, "u1"}, users |-> {"su"}, mods |-> {FALSE},
     dropNames |-> {Name_ts1}, renameOld |-> {Name_ts1},
     renameNew |-> {Name_ts2}]

(* session s1 prepares its temporary tablespaces while s2 creates, drops
   and renames tablespaces *)
NextTemp ==
    \/ \E user \in TempUsers : TempCall("s1", user)
    \/ TempEntry("s1")
    \/ TempLock("s1")
    \/ TempEnd("s1")
    \/ SessionNext("s2", TempMenu)

SpecTemp == InitTemp /\ [][NextTemp]_vars

----------------------------------------------------------------------------
(* AlterTableSpaceMove: ALTER TABLESPACE orig MOVE ALL TO new [NOWAIT] *)

(* the database of the session that moves; r2 and r3 are its relations *)
MyDatabaseId == "db2"

(* a lock request that is always granted *)
ConditionalLockRelationOid_always(s, r) == TRUE

(* ConditionalLockRelationOid(relOid, AccessExclusiveLock) *)
ConditionalLockRelationOid(s, r) ==
    \A w \in Sessions \ {s} : <<w, r>> \notin relLocks

(* checks that let pg_global pass *)
AlterTableSpaceMoveCheck_noglobal(orig_tablespaceoid, new_tablespaceoid, user) ==
    IF ~OidIsValid(orig_tablespaceoid) \/ ~OidIsValid(new_tablespaceoid)
    THEN "undefined_object"
    ELSE IF /\ new_tablespaceoid # MyDatabaseTableSpace
            /\ ~pg_tablespace_aclcheck(pg_tablespace, "s1", new_tablespaceoid, user)
    THEN "insufficient_privilege"
    ELSE "ok"

(* the errors before the scan of pg_class, "ok" when none *)
AlterTableSpaceMoveCheck(orig_tablespaceoid, new_tablespaceoid, user) ==
    IF ~OidIsValid(orig_tablespaceoid) \/ ~OidIsValid(new_tablespaceoid)
    THEN "undefined_object"
    ELSE IF orig_tablespaceoid = GLOBALTABLESPACE_OID
            \/ new_tablespaceoid = GLOBALTABLESPACE_OID
    THEN "invalid_parameter_value"
    ELSE IF /\ new_tablespaceoid # MyDatabaseTableSpace
            /\ ~pg_tablespace_aclcheck(pg_tablespace, "s1", new_tablespaceoid, user)
    THEN "insufficient_privilege"
    ELSE "ok"

(* a move that takes the OIDs as the catalog gives them *)
MoveEffective_raw(tablespaceoid) == tablespaceoid

(* "set either to InvalidOid because it is our database's default
   tablespace" *)
MoveEffective(tablespaceoid) ==
    IF tablespaceoid = MyDatabaseTableSpace THEN InvalidOid ELSE tablespaceoid

(* where the files of a tablespace live: the location its symlink names,
   or base/ in the data directory when it has none *)
BaseDir == <<"b", "a", "s", "e">>
TablespaceDir(f, tablespaceoid) ==
    IF tablespaceoid \in DOMAIN f.link THEN FsDir(f.link[tablespaceoid])
    ELSE BaseDir

(* the two lookups, the checks, and the relations the scan of pg_class
   will find *)
MoveBegin(s, orig, new, nowait, user) ==
    /\ ~InRecovery /\ pc[s] = "idle"
    /\ LET orig_found == get_tablespace_oid_scan(pg_tablespace, s, orig)
           new_found == get_tablespace_oid_scan(pg_tablespace, s, new)
           found == {orig_found, new_found} \ {InvalidOid}
           err == AlterTableSpaceMoveCheck(orig_found, new_found, user)
           orig_tablespaceoid == MoveEffective(orig_found)
           new_tablespaceoid == MoveEffective(new_found)
           noop == orig_tablespaceoid = new_tablespaceoid
       IN  /\ \A oid \in found : ~heap_lock_tuple_waits(s, oid)
           /\ keyshare' = keyshare \cup
                 (IF OidIsValid(orig_found)
                  THEN UNION {KeyShareLock(s, oid) : oid \in found}
                  ELSE {})
           /\ op' = [op EXCEPT ![s] =
                        [kind |-> "move", name |-> orig, newname |-> new,
                         nowait |-> nowait, user |-> user,
                         oid |-> orig_tablespaceoid, newoid |-> new_tablespaceoid,
                         stale |-> FALSE, rel |-> "none", locked |-> {},
                         todo |-> IF err = "ok" /\ ~noop
                                  THEN {r \in Rels :
                                          /\ RelDb(r) = MyDatabaseId
                                          /\ pg_class[r] # NoRel
                                          /\ pg_class[r].spc = orig_tablespaceoid}
                                  ELSE {}]]
           /\ pc' = [pc EXCEPT ![s] = IF err # "ok" THEN "move_abort"
                                      ELSE IF noop THEN "move_done"
                                      ELSE "move_scan"]
           /\ ret' = [ret EXCEPT ![s] =
                         [err |-> IF err = "ok" /\ ~noop THEN "none" ELSE err,
                          oid |-> IF err = "ok" THEN new_tablespaceoid
                                  ELSE InvalidOid]]
    /\ UNCHANGED <<pg_tablespace, pg_class, nextOid, TablespaceCreateLock, fs,
                   wal, walAborted, forceSync, dispatched, Gp_role, redoVars,
                   backup, snap, temp, relLocks>>

(* relForm->relowner of the relations *)
RelOwner(r) == IF r = "r3" THEN "u1" ELSE "su"

(* pg_class_ownercheck(relOid, GetUserId()) *)
pg_class_ownercheck(r, user) == superuser(user) \/ RelOwner(r) = user

(* a scan that asks nobody about the owner *)
MoveLock_noowner(s, r) ==
    /\ ~InRecovery /\ pc[s] = "move_scan"
    /\ r \in op[s].todo
    /\ IF op[s].nowait /\ ~ConditionalLockRelationOid(s, r)
       THEN /\ pc' = [pc EXCEPT ![s] = "move_abort"]
            /\ ret' = [ret EXCEPT ![s] = [err |-> "object_in_use",
                                          oid |-> InvalidOid]]
            /\ op' = [op EXCEPT ![s].rel = r]
            /\ UNCHANGED relLocks
       ELSE /\ \A w \in Sessions \ {s} : <<w, r>> \notin relLocks
            /\ relLocks' = relLocks \cup {<<s, r>>}
            /\ op' = [op EXCEPT ![s].rel = r, ![s].todo = @ \ {r},
                                ![s].locked = @ \cup {r}]
            /\ UNCHANGED <<pc, ret>>
    /\ UNCHANGED <<pg_tablespace, keyshare, pg_class, nextOid,
                   TablespaceCreateLock, fs, wal, walAborted, forceSync,
                   dispatched, Gp_role, redoVars, backup, snap, temp>>

(* a scan that waits for the lock whatever the statement says *)
MoveLock_wait(s, r) ==
    /\ ~InRecovery /\ pc[s] = "move_scan"
    /\ r \in op[s].todo
    /\ IF ~pg_class_ownercheck(r, op[s].user)
       THEN /\ pc' = [pc EXCEPT ![s] = "move_abort"]
            /\ ret' = [ret EXCEPT ![s] = [err |-> "not_owner",
                                          oid |-> InvalidOid]]
            /\ op' = [op EXCEPT ![s].rel = r]
            /\ UNCHANGED relLocks
       ELSE /\ \A w \in Sessions \ {s} : <<w, r>> \notin relLocks
            /\ relLocks' = relLocks \cup {<<s, r>>}
            /\ op' = [op EXCEPT ![s].rel = r, ![s].todo = @ \ {r},
                                ![s].locked = @ \cup {r}]
            /\ UNCHANGED <<pc, ret>>
    /\ UNCHANGED <<pg_tablespace, keyshare, pg_class, nextOid,
                   TablespaceCreateLock, fs, wal, walAborted, forceSync,
                   dispatched, Gp_role, redoVars, backup, snap, temp>>

(* a scan that first collects and then locks the whole list at once *)
MoveLock_all(s, r) ==
    /\ ~InRecovery /\ pc[s] = "move_scan"
    /\ r \in op[s].todo
    /\ IF \E q \in op[s].todo : ~pg_class_ownercheck(q, op[s].user)
       THEN /\ pc' = [pc EXCEPT ![s] = "move_abort"]
            /\ ret' = [ret EXCEPT ![s] = [err |-> "not_owner",
                                          oid |-> InvalidOid]]
            /\ op' = [op EXCEPT ![s].rel = r]
            /\ UNCHANGED relLocks
       ELSE IF op[s].nowait /\ ~ConditionalLockRelationOid(s, r)
       THEN /\ pc' = [pc EXCEPT ![s] = "move_abort"]
            /\ ret' = [ret EXCEPT ![s] = [err |-> "object_in_use",
                                          oid |-> InvalidOid]]
            /\ op' = [op EXCEPT ![s].rel = r]
            /\ UNCHANGED relLocks
       ELSE /\ \A w \in Sessions \ {s}, q \in op[s].todo : <<w, q>> \notin relLocks
            /\ relLocks' = relLocks \cup {<<s, q>> : q \in op[s].todo}
            /\ op' = [op EXCEPT ![s].rel = r, ![s].todo = {},
                                ![s].locked = @ \cup op[s].todo]
            /\ UNCHANGED <<pc, ret>>
    /\ UNCHANGED <<pg_tablespace, keyshare, pg_class, nextOid,
                   TablespaceCreateLock, fs, wal, walAborted, forceSync,
                   dispatched, Gp_role, redoVars, backup, snap, temp>>

(* the scan comes to relation r: the caller must own it; then with NOWAIT
   a lock that is not available is an error, otherwise the session waits
   for it *)
MoveLock(s, r) ==
    /\ ~InRecovery /\ pc[s] = "move_scan"
    /\ r \in op[s].todo
    /\ IF ~pg_class_ownercheck(r, op[s].user)
       THEN /\ pc' = [pc EXCEPT ![s] = "move_abort"]
            /\ ret' = [ret EXCEPT ![s] = [err |-> "not_owner",
                                          oid |-> InvalidOid]]
            /\ op' = [op EXCEPT ![s].rel = r]
            /\ UNCHANGED relLocks
       ELSE IF op[s].nowait /\ ~ConditionalLockRelationOid(s, r)
       THEN /\ pc' = [pc EXCEPT ![s] = "move_abort"]
            /\ ret' = [ret EXCEPT ![s] = [err |-> "object_in_use",
                                          oid |-> InvalidOid]]
            /\ op' = [op EXCEPT ![s].rel = r]
            /\ UNCHANGED relLocks
       ELSE /\ \A w \in Sessions \ {s} : <<w, r>> \notin relLocks
            /\ relLocks' = relLocks \cup {<<s, r>>}
            /\ op' = [op EXCEPT ![s].rel = r, ![s].todo = @ \ {r},
                                ![s].locked = @ \cup {r}]
            /\ UNCHANGED <<pc, ret>>
    /\ UNCHANGED <<pg_tablespace, keyshare, pg_class, nextOid,
                   TablespaceCreateLock, fs, wal, walAborted, forceSync,
                   dispatched, Gp_role, redoVars, backup, snap, temp>>

(* a rewrite that does not wait for the end of the scan *)
MoveApply_early(s) ==
    /\ ~InRecovery /\ pc[s] = "move_scan"
    /\ op[s].locked # {}
    /\ LET dir == TablespaceDir(fs, op[s].newoid)
       IN  /\ pg_class' = [r \in Rels |->
                  IF r \in op[s].locked
                  THEN [pg_class[r] EXCEPT !.spc = op[s].newoid]
                  ELSE pg_class[r]]
           /\ fs' = [fs EXCEPT
                  !.dbdir = @ \cup {<<dir, RelDb(r)>> : r \in op[s].locked},
                  !.relfile = [r \in Rels |->
                                  IF r \in op[s].locked
                                  THEN [dir |-> dir, state |-> "live"]
                                  ELSE @[r]]]
    /\ pc' = [pc EXCEPT ![s] = "move_done"]
    /\ ret' = [ret EXCEPT ![s].err = "ok"]
    /\ UNCHANGED <<pg_tablespace, keyshare, nextOid, op,
                   TablespaceCreateLock, wal, walAborted, forceSync,
                   dispatched, Gp_role, redoVars, backup, snap, temp, relLocks>>

(* everything is locked: AlterTableInternal(AT_SetTableSpace) for each
   relation of the list *)
MoveApply(s) ==
    /\ ~InRecovery /\ pc[s] = "move_scan"
    /\ op[s].todo = {}
    /\ LET dir == TablespaceDir(fs, op[s].newoid)
       IN  /\ pg_class' = [r \in Rels |->
                  IF r \in op[s].locked
                  THEN [pg_class[r] EXCEPT !.spc = op[s].newoid]
                  ELSE pg_class[r]]
           /\ fs' = [fs EXCEPT
                  !.dbdir = @ \cup {<<dir, RelDb(r)>> : r \in op[s].locked},
                  !.relfile = [r \in Rels |->
                                  IF r \in op[s].locked
                                  THEN [dir |-> dir, state |-> "live"]
                                  ELSE @[r]]]
    /\ pc' = [pc EXCEPT ![s] = "move_done"]
    /\ ret' = [ret EXCEPT ![s].err = "ok"]
    /\ UNCHANGED <<pg_tablespace, keyshare, nextOid, op,
                   TablespaceCreateLock, wal, walAborted, forceSync,
                   dispatched, Gp_role, redoVars, backup, snap, temp, relLocks>>

(* the transaction of the move ends: its locks are released *)
MoveEnd(s) ==
    /\ ~InRecovery /\ pc[s] \in {"move_done", "move_abort"}
    /\ pc' = [pc EXCEPT ![s] = "idle"]
    /\ op' = [op EXCEPT ![s] = NoOp]
    /\ ret' = [ret EXCEPT ![s] = NoRet]
    /\ keyshare' = {l \in keyshare : l[1] # s}
    /\ relLocks' = {l \in relLocks : l[1] # s}
    /\ UNCHANGED <<pg_tablespace, pg_class, nextOid,
                   TablespaceCreateLock, fs, wal, walAborted, forceSync,
                   dispatched, Gp_role, redoVars, backup, snap, temp>>

(* a transaction of another session takes a conflicting lock on r *)
LockRel(w, r) ==
    /\ ~InRecovery /\ pc[w] = "idle"
    /\ pg_class[r] # NoRel /\ pg_class[r].xmin = Committed
    /\ \A l \in relLocks : l[2] # r
    /\ relLocks' = relLocks \cup {<<w, r>>}
    /\ UNCHANGED <<normalVars, Gp_role, redoVars, backup, snap, temp>>

(* and ends *)
UnlockRel(w) ==
    /\ ~InRecovery /\ \E l \in relLocks : l[1] = w
    /\ relLocks' = {l \in relLocks : l[1] # w}
    /\ UNCHANGED <<normalVars, Gp_role, redoVars, backup, snap, temp>>

MoveMenu ==
    [lookupNames |-> {Name_ts1}, missingOk |-> {FALSE}, rels |-> {"r2", "r3"},
     createNames |-> {Name_ts1, Name_ts2}, paths |-> {Path_a, Path_b},
     owners |-> {NoOwner, "u1"}, users |-> {"su"}, mods |-> {FALSE},
     dropNames |-> {Name_ts2}, renameOld |-> {Name_ts2},
     renameNew |-> {Name_ts1}]

(* session s1 creates tablespaces and relations and moves the relations;
   session s2 locks relations *)
NextMove ==
    \/ SessionNext("s1", MoveMenu)
    \/ \E orig \in {Name_ts1, Name_pg_default, Name_pg_global},
          new \in {Name_ts1, Name_ts2, Name_pg_default, Name_pg_global},
          nowait \in BOOLEAN, user \in Users :
           MoveBegin("s1", orig, new, nowait, user)
    \/ \E r \in Rels : MoveLock("s1", r)
    \/ MoveApply("s1")
    \/ MoveEnd("s1")
    \/ \E r \in Rels : LockRel("s2", r)
    \/ UnlockRel("s2")

SpecMove == Init /\ [][NextMove]_vars

----------------------------------------------------------------------------
(* GetDefaultTablespace for an object that is not temporary *)

(* a result that is handed on as it is *)
DefaultTablespaceResult_raw(result) == result

(* the database's own tablespace is reported as InvalidOid *)
DefaultTablespaceResult(result) ==
    IF result = MyDatabaseTableSpace THEN InvalidOid ELSE result

(* the fast path for an empty default_tablespace, or the scan of
   get_tablespace_oid(default_tablespace, true) *)
DefaultBegin(s, default_tablespace) ==
    /\ ~InRecovery /\ pc[s] = "idle"
    /\ LET result == get_tablespace_oid_scan(pg_tablespace, s, default_tablespace)
           found == default_tablespace # <<>> /\ OidIsValid(result)
       IN  /\ op' = [op EXCEPT ![s] =
                        [kind |-> "default", name |-> default_tablespace,
                         missing_ok |-> TRUE, rel |-> "none",
                         oid |-> IF found THEN result ELSE InvalidOid,
                         stale |-> FALSE]]
           /\ pc' = [pc EXCEPT ![s] = IF found THEN "default_lock" ELSE "commit"]
           /\ ret' = [ret EXCEPT ![s] =
                         IF found THEN NoRet
                         ELSE [err |-> "ok",
                               oid |-> DefaultTablespaceResult(InvalidOid)]]
    /\ UNCHANGED <<pg_tablespace, keyshare, pg_class, nextOid,
                   TablespaceCreateLock, fs, wal, forceSync, dispatched, frame>>

(* the tuple lock of get_tablespace_oid, then the test for the database's
   own tablespace *)
DefaultLock(s) ==
    /\ ~InRecovery /\ pc[s] = "default_lock"
    /\ ~heap_lock_tuple_waits(s, op[s].oid)
    /\ IF op[s].stale
       THEN /\ pc' = [pc EXCEPT ![s] = "abort"]
            /\ ret' = [ret EXCEPT ![s] = [err |-> "serialization_failure",
                                          oid |-> InvalidOid]]
            /\ UNCHANGED keyshare
       ELSE /\ keyshare' = keyshare \cup KeyShareLock(s, op[s].oid)
            /\ pc' = [pc EXCEPT ![s] = "commit"]
            /\ ret' = [ret EXCEPT ![s] =
                          [err |-> "ok",
                           oid |-> DefaultTablespaceResult(op[s].oid)]]
    /\ UNCHANGED <<pg_tablespace, pg_class, nextOid, op,
                   TablespaceCreateLock, fs, wal, forceSync, dispatched, frame>>

(* session s1 asks for the default tablespace while s2 creates, drops and
   renames tablespaces *)
NextDefault ==
    \/ \E name \in {NoName, Name_ts1, Name_ts2, Name_pg_default} :
           DefaultBegin("s1", name)
    \/ DefaultLock("s1")
    \/ CommitTransaction("s1")
    \/ AbortTransaction("s1")
    \/ SessionNext("s2", TempMenu)

SpecDefault == Init /\ [][NextDefault]_vars

----------------------------------------------------------------------------
(* Crash recovery: replay of the tablespace records *)

(* ResolveRecoveryConflictWithTablespace cancels the standby queries that
   keep temporary files in the tablespace; the files of relations stay.
   `cleaned' tells whether the cancelled backends have removed their
   files by the time it returns *)
ResolveRecoveryConflictWithTablespace(f, tablespaceoid, cleaned) ==
    IF cleaned
    THEN [f EXCEPT !.relfile = [r \in Rels |->
             IF @[r].state = "temp" /\ @[r].dir = FsDir(f.link[tablespaceoid])
             THEN NoFile ELSE @[r]]]
    ELSE f

(* a replay that raises the error when the retry fails as well *)
tblspc_redo_strict(f, record, cleaned) ==
    IF record.info = "XLOG_TBLSPC_CREATE"
    THEN create_tablespace_directories(f, record.ts_path, record.ts_id, TRUE)
    ELSE LET first == CHOOSE out \in
                         destroy_tablespace_directories(f, record.ts_id, TRUE) : TRUE
             resolved == ResolveRecoveryConflictWithTablespace(first.fs, record.ts_id,
                                                               cleaned)
             second == CHOOSE out \in
                         destroy_tablespace_directories(resolved, record.ts_id, TRUE) : TRUE
         IN  IF first.result
             THEN [fs |-> first.fs, err |-> "ok", attempts |-> 1]
             ELSE [fs |-> second.fs,
                   err |-> IF second.result THEN "ok"
                           ELSE "object_not_in_prerequisite_state",
                   attempts |-> 2]

(* tblspc_redo: the filesystem after the record, the error raised and,
   for a drop record, the number of destroy_tablespace_directories calls *)
tblspc_redo(f, record, cleaned) ==
    IF record.info = "XLOG_TBLSPC_CREATE"
    THEN create_tablespace_directories(f, record.ts_path, record.ts_id, TRUE)
    ELSE LET first == CHOOSE out \in
                         destroy_tablespace_directories(f, record.ts_id, TRUE) : TRUE
             resolved == ResolveRecoveryConflictWithTablespace(first.fs, record.ts_id,
                                                               cleaned)
             second == CHOOSE out \in
                         destroy_tablespace_directories(resolved, record.ts_id, TRUE) : TRUE
         IN  IF first.result
             THEN [fs |-> first.fs, err |-> "ok", attempts |-> 1]
             ELSE [fs |-> second.fs, err |-> "ok", attempts |-> 2]

(* what the server may find missing when it starts again: tablespace
   locations live outside the data directory *)
LostLocations == {{}, {Path_a}}

(* the locations in `lost' are gone with all they held; the symlinks under
   the data directory stay *)
LoseLocations(f, lost) ==
    [f EXCEPT !.locdir = @ \ lost,
              !.verdir = @ \ lost,
              !.dbdir = {x \in @ : x[1] \notin lost},
              !.relfile = [r \in Rels |->
                              IF @[r].dir \in lost THEN NoFile ELSE @[r]]]

(* a copy of the data directory is taken while the system runs *)
TakeBackup ==
    /\ ~InRecovery /\ ~backup.taken
    /\ backup' = [taken |-> TRUE, fs |-> fs]
    /\ UNCHANGED <<normalVars, Gp_role, InRecovery, replayPos, redoPre, redoErr,
                   fsAtCrash, auxVars>>

(* the run ends.  Replay starts from the directory state at the crash, at
   the record after any checkpoint of the run, or from the copy taken
   earlier, at the first record.  Transactions in progress are gone. *)
Crash(fromBackup, startPos, lost) ==
    /\ ~InRecovery
    /\ fromBackup => backup.taken /\ startPos = 1
    /\ InRecovery' = TRUE
    /\ fsAtCrash' = [clean |-> \A s \in Sessions : pc[s] = "idle", fs |-> fs]
    /\ fs' = LoseLocations(IF fromBackup THEN backup.fs ELSE fs, lost)
    /\ redoPre' = fs'
    /\ replayPos' = startPos
    /\ redoErr' = "ok"
    /\ pg_tablespace' = {IF t.xmax # NoXid THEN [t EXCEPT !.xmax = NoXid] ELSE t :
                            t \in {u \in pg_tablespace : u.xmin = Committed}}
    /\ pg_class' = [r \in Rels |->
                       IF pg_class[r].xmin = Committed THEN pg_class[r] ELSE NoRel]
    /\ keyshare' = {}
    /\ TablespaceCreateLock' = NoSession
    /\ pc' = [s \in Sessions |-> "idle"]
    /\ op' = [s \in Sessions |-> NoOp]
    /\ ret' = [s \in Sessions |-> NoRet]
    /\ forceSync' = [s \in Sessions |-> FALSE]
    /\ dispatched' = [s \in Sessions |-> FALSE]
    /\ UNCHANGED <<nextOid, wal, walAborted, Gp_role, backup, auxVars>>

(* the startup process replays the next record *)
RedoStep(cleaned) ==
    /\ InRecovery /\ redoErr = "ok" /\ replayPos <= Len(wal)
    /\ LET out == tblspc_redo(fs, wal[replayPos], cleaned)
       IN  /\ fs' = out.fs
           /\ redoErr' = out.err
    /\ redoPre' = fs
    /\ replayPos' = replayPos + 1
    /\ UNCHANGED <<pg_tablespace, keyshare, pg_class, nextOid, pc, op, ret,
                   TablespaceCreateLock, wal, walAborted, forceSync, dispatched,
                   Gp_role, InRecovery, backup, fsAtCrash, auxVars>>

RedoMenu ==
    [lookupNames |-> {Name_ts1}, missingOk |-> {FALSE}, rels |-> {"r1"},
     createNames |-> {Name_ts1, Name_ts2}, paths |-> {Path_a, Path_a_slash, Path_b},
     owners |-> {NoOwner}, users |-> {"su"}, mods |-> {FALSE},
     dropNames |-> {Name_ts1, Name_ts2}, renameOld |-> {Name_ts1},
     renameNew |-> {Name_ts2}]

NextRedo ==
    \/ SessionNext("s1", RedoMenu)
    \/ \E workersOk \in BOOLEAN : Dispatch("s1", workersOk)
    \/ \E r \in Rels : DropRel(r)
    \/ Checkpoint
    \/ TakeBackup
    \/ \E fromBackup \in BOOLEAN, startPos \in 1..(Len(wal) + 1),
          lost \in LostLocations :
           Crash(fromBackup, startPos, lost)
    \/ \E cleaned \in BOOLEAN : RedoStep(cleaned)

SpecRedo == InitSeq /\ [][NextRedo]_vars

(* a backend of the standby writes a temporary file into a tablespace *)
StandbyTempFile(r, tablespaceoid) ==
    /\ InRecovery
    /\ fs.link[tablespaceoid] # NoLink
    /\ FsDir(fs.link[tablespaceoid]) \in fs.verdir
    /\ fs.relfile[r] = NoFile
    /\ fs' = [fs EXCEPT
                 !.dbdir = @ \cup {<<FsDir(fs.link[tablespaceoid]), RelDb(r)>>},
                 !.relfile[r] = [dir |-> FsDir(fs.link[tablespaceoid]),
                                 state |-> "temp"]]
    /\ UNCHANGED <<pg_tablespace, keyshare, pg_class, nextOid, pc, op, ret,
                   TablespaceCreateLock, wal, walAborted, forceSync, dispatched,
                   Gp_role, InRecovery, replayPos, redoPre, redoErr, backup,
                   fsAtCrash, auxVars>>

(* the filesystem of the data directory runs out of room, or gets it
   back: symlink() fails while there is none *)
SetNoSpace(b) ==
    /\ ~InRecovery /\ fs.nospace # b
    /\ fs' = [fs EXCEPT !.nospace = b]
    /\ UNCHANGED <<pg_tablespace, keyshare, pg_class, nextOid, pc, op, ret,
                   TablespaceCreateLock, wal, forceSync, dispatched, frame>>

(* a host whose surroundings interfere: the data directory fills up, and
   after a crash the records are replayed on a standby that serves queries *)
NextStandby ==
    \/ SessionNext("s1", TempMenu)
    \/ \E workersOk \in BOOLEAN : Dispatch("s1", workersOk)
    \/ \E b \in BOOLEAN : SetNoSpace(b)
    \/ \E startPos \in 1..(Len(wal) + 1) : Crash(FALSE, startPos, {})
    \/ \E oid \in UserOids : StandbyTempFile("r1", oid)
    \/ \E cleaned \in BOOLEAN : RedoStep(cleaned)

SpecStandby == InitSeq /\ [][NextStandby]_vars

----------------------------------------------------------------------------
(* destroy_tablespace_directories as a function of the filesystem *)

(* the states in which a tablespace at /a can be found: with or without
   its symlink and version directory, any per-database subdirectories,
   files of r1 (db1) and r2 (db2) in them, and any refusals *)
DestroyFs ==
    {f \in {[EmptyFs EXCEPT !.link[FirstNormalObjectId] = l,
                            !.verdir = v,
                            !.dbdir = {<<Path_a, db>> : db \in dbs},
                            !.relfile["r1"] = [dir |-> IF st1 = "none" THEN NoLink
                                                       ELSE Path_a, state |-> st1],
                            !.relfile["r2"] = [dir |-> IF st2 = "none" THEN NoLink
                                                       ELSE Path_a, state |-> st2],
                            !.deny = dn] :
                 l \in {NoLink, Path_a}, v \in SUBSET {Path_a}, dbs \in SUBSET Dbs,
                 st1 \in {"none", "live", "unlinked", "temp"},
                 st2 \in {"none", "live", "unlinked"},
                 dn \in SUBSET {"opendir", "unlink"}} :
        /\ \A x \in f.dbdir : x[1] \in f.verdir
        /\ \A r \in Rels : f.relfile[r].state # "none" =>
                               <<f.relfile[r].dir, RelDb(r)>> \in f.dbdir}

(* one call: redoPre keeps the filesystem it was given, fs the one it
   left, op the arguments and the result, redoErr the ERROR raised *)
DestroyCall(f, tablespaceoid, redo) ==
    /\ ~InRecovery
    /\ \E out \in destroy_tablespace_directories(f, tablespaceoid, redo) :
          /\ redoPre' = f
          /\ fs' = out.fs
          /\ redoErr' = out.err
          /\ op' = [op EXCEPT !["s1"] = [kind |-> "destroy", oid |-> tablespaceoid,
                                         redo |-> redo, result |-> out.result]]
    /\ UNCHANGED <<pg_tablespace, keyshare, pg_class, nextOid, pc, ret,
                   TablespaceCreateLock, wal, walAborted, forceSync, dispatched,
                   Gp_role, InRecovery, replayPos, backup, fsAtCrash, auxVars>>

SpecDestroy ==
    Init /\ [][\E f \in DestroyFs, redo \in BOOLEAN :
                  DestroyCall(f, FirstNormalObjectId, redo)]_vars

----------------------------------------------------------------------------
(* A series of renames of one tablespace *)

RenameMenu ==
    [lookupNames |-> {Name_ts1}, missingOk |-> {FALSE}, rels |-> {"r1"},
     createNames |-> {Name_ts1, Name_ts2}, paths |-> {Path_a, Path_b},
     owners |-> {NoOwner, "u1"}, users |-> {"su"}, mods |-> {FALSE},
     dropNames |-> {Name_ts1}, renameOld |-> {Name_ts1, Name_ts2},
     renameNew |-> {Name_ts1, Name_ts2, Name_pg_x}]

(* statements before the state is remembered *)
RenameSetup == ~snap.taken /\ SessionNext("s1", RenameMenu)

(* remember the state and one tablespace created by a user *)
RenameMark(oid) ==
    /\ ~snap.taken
    /\ \A s \in Sessions : pc[s] = "idle"
    /\ \E t \in pg_tablespace :
          /\ t.oid = oid
          /\ snap' = [taken |-> TRUE, rows |-> pg_tablespace, fs |-> fs,
                      pg_class |-> pg_class, oid |-> oid, name |-> t.spcname]
    /\ UNCHANGED <<normalVars, Gp_role, redoVars, backup, temp, relLocks>>

(* afterwards: only ALTER TABLESPACE .. RENAME TO of that tablespace *)
RenameSeries(s) ==
    /\ snap.taken
    /\ \/ \E oldname \in RenameMenu.renameOld, newname \in RenameMenu.renameNew,
             user \in Users, mods \in BOOLEAN :
              /\ get_tablespace_oid_scan(pg_tablespace, s, oldname) = snap.oid
              /\ RenameBegin(s, oldname, newname, user, mods)
       \/ RenameUpdate(s)
       \/ RenameIndex(s)
       \/ CommitTransaction(s)
       \/ AbortTransaction(s)

NextRename ==
    \/ RenameSetup
    \/ \E oid \in UserOids : RenameMark(oid)
    \/ RenameSeries("s1")

SpecRename == Init /\ [][NextRename]_vars

----------------------------------------------------------------------------
(* CREATE TABLESPACE with segment-level locations, on the coordinator and
   on a worker *)

(* WITH (content<suffix> = '<arg>') *)
ContentOption(suffix, arg) == [defname |-> Key_content \o suffix, arg |-> arg]

(* the overrides of a statement: content IDs 0, 1 and 2, a key without an
   ID, and a key of another kind, with a good and a bad location *)
OptionLists ==
    LET opts == {ContentOption(x, a) : x \in {<<"0">>, <<"1">>, <<"2">>, <<>>},
                                       a \in {Path_b, Path_rel}}
                   \cup {[defname |-> <<"x">>, arg |-> Path_b]}
    IN  {<<>>} \cup {<<o>> : o \in opts} \cup {<<o, q>> : o, q \in opts}

(* a coordinator, or one of its workers *)
InitOptions ==
    /\ \E role \in {"dispatch", "execute"} : InitRole(role)
    /\ InitAux

NextOptions ==
    \/ \E options \in OptionLists, segindex \in -1..(getgpsegmentCount - 1),
          user \in Users :
           /\ segindex = -1 <=> Gp_role = "dispatch"
           /\ CreateTableSpaceStmt("s1", Name_ts1, options, segindex, Path_a,
                                   NoOwner, user, FALSE)
    \/ SessionNext("s1", RenameMenu)
    \/ \E workersOk \in BOOLEAN : Dispatch("s1", workersOk)

SpecOptions == InitOptions /\ [][NextOptions]_vars

----------------------------------------------------------------------------
(* Properties *)

(* the rows of committed transactions *)
LiveRows == {t \in pg_tablespace : t.xmin = Committed}

(* C1: when a CREATE TABLESPACE commits, looking the name up returns the
   OID the command returned, and get_tablespace_name of that OID returns
   the name *)
C1_CreateRoundTrip ==
    [][\A s \in Sessions :
          (pc[s] = "commit" /\ op[s].kind = "create" /\ pc'[s] = "idle") =>
              /\ OidIsValid(ret[s].oid)
              /\ get_tablespace_oid_scan(pg_tablespace', s, op[s].name) = ret[s].oid
              /\ get_tablespace_name(pg_tablespace', s, ret[s].oid) = op[s].name]_vars

C1_Witness ==
    /\ pc["s1"] = "idle"
    /\ \E t \in LiveRows :
          /\ t.oid \in UserOids
          /\ fs.link[t.oid] = Path_a
          /\ get_tablespace_oid_scan(pg_tablespace, "s1", t.spcname) = t.oid
          /\ get_tablespace_name(pg_tablespace, "s1", t.oid) = t.spcname

(* C2: in every reachable state no two rows of committed transactions have
   the same name *)
C2_NamesUnique ==
    \A t, u \in LiveRows : t.spcname = u.spcname => t = u

(* a second inserter of the same name was turned away by the index while
   two tablespaces created by users are live *)
C2_Witness ==
    /\ \E s \in Sessions : ret[s].err = "unique_violation"
    /\ Cardinality({t \in LiveRows : t.oid \in UserOids}) = 2

(* session s resolved a tablespace name in its running transaction *)
HoldsResolved(s) == op[s].kind = "lookup" /\ OidIsValid(ret[s].oid)

(* C3: while a transaction that resolved a tablespace name has not ended,
   it holds the key-share lock on the row, the row is live and no other
   transaction has deleted or updated it (no concurrent Drop got past its
   row deletion); the key-share locks of others never keep a lookup from
   taking its own lock *)
C3_KeyShareBlocksDrop ==
    \A s \in Sessions :
        /\ HoldsResolved(s) =>
              /\ <<s, ret[s].oid>> \in keyshare
              /\ \E t \in LiveRows : t.oid = ret[s].oid
              /\ \A t \in pg_tablespace : t.oid = ret[s].oid => t.xmax = NoXid
              /\ \A w \in Sessions \ {s} :
                    op[w].kind = "drop" /\ op[w].oid = ret[s].oid =>
                        pc[w] \in {"drop_delete", "abort"}
        /\ (pc[s] = "lookup_lock" /\ ~XmaxBusy(s, op[s].oid)) =>
              ENABLED LookupLock(s)
        /\ (pc[s] = "create_lock" /\ ~XmaxBusy(s, op[s].oid)) =>
              ENABLED CreateLock(s)

(* a Drop waits at its row deletion for the transaction that resolved the
   name, while that transaction creates a relation in the tablespace *)
C3_Witness ==
    \E s, w \in Sessions :
        /\ s # w /\ HoldsResolved(s) /\ pc[s] = "rel_file"
        /\ op[w].kind = "drop" /\ op[w].oid = ret[s].oid
        /\ pc[w] = "drop_delete" /\ ~op[w].stale

(* the per-database subdirectories of a tablespace that hold a file in one
   of the given states *)
DbDirsHolding(f, tablespaceoid, states) ==
    IF f.link[tablespaceoid] = NoLink THEN {}
    ELSE {db \in Dbs :
             /\ <<FsDir(f.link[tablespaceoid]), db>> \in f.dbdir
             /\ \E r \in FilesIn(f, FsDir(f.link[tablespaceoid]), db) :
                   f.relfile[r].state \in states}

NotEmptyError == "object_not_in_prerequisite_state"

(* C4 as stated: a Drop that found a per-database subdirectory non-empty
   fails with "is not empty" *)
C4_AnyNonEmptyFails ==
    [][\A s \in Sessions :
          /\ (/\ pc[s] = "drop_destroy"
              /\ DbDirsHolding(fs, op[s].oid, {"live", "unlinked"}) # {}
              /\ pc'[s] # "drop_destroy") => pc'[s] = "drop_retry"
          /\ (pc[s] = "drop_retry" /\ pc'[s] # "drop_retry") =>
                 /\ pc'[s] = "abort"
                 /\ ret'[s].err = NotEmptyError]_vars

(* C4: a Drop of a tablespace with a subdirectory that holds a file which
   is not merely waiting to be unlinked goes to the retry; a retry that
   finds a non-empty subdirectory fails with "is not empty"; and when that
   transaction has rolled back, the name resolves to the same OID *)
C4_DropNotEmpty ==
    [][\A s \in Sessions :
          /\ (/\ pc[s] = "drop_destroy"
              /\ DbDirsHolding(fs, op[s].oid, {"live"}) # {}
              /\ pc'[s] # "drop_destroy") =>
                 /\ pc'[s] = "drop_retry"
                 /\ DbDirsHolding(fs', op[s].oid, {"live"}) # {}
          /\ (/\ pc[s] = "drop_retry"
              /\ DbDirsHolding(fs, op[s].oid, {"live", "unlinked"}) # {}
              /\ pc'[s] # "drop_retry") =>
                 /\ pc'[s] = "abort"
                 /\ ret'[s].err = NotEmptyError
                 /\ wal' = wal
          /\ (/\ pc[s] = "abort" /\ op[s].kind = "drop"
              /\ ret[s].err = NotEmptyError
              /\ pc'[s] = "idle") =>
                 /\ get_tablespace_oid_scan(pg_tablespace', s, op[s].name) = op[s].oid
                 /\ \E t \in pg_tablespace' :
                       t.oid = op[s].oid /\ t.xmin = Committed /\ t.xmax = NoXid]_vars

C4_Witness ==
    \E s \in Sessions :
        /\ pc[s] = "abort" /\ op[s].kind = "drop"
        /\ ret[s].err = NotEmptyError
        /\ DbDirsHolding(fs, op[s].oid, {"live"}) # {}

BuiltinOids == {GLOBALTABLESPACE_OID, DEFAULTTABLESPACE_OID}

(* C5: a Drop issued by the owner of a tablespace that is not built in
   passes the checks; with no file in any of its directories the removal
   succeeds at the first try and the record is logged; and when the Drop
   commits, looking the name up with missing_ok returns InvalidOid *)
C5_DropEmptySucceeds ==
    [][\A s \in Sessions :
          /\ (/\ pc[s] = "idle" /\ op'[s].kind = "drop"
              /\ \E t \in LiveRows :
                    /\ t.spcname = op'[s].name /\ t.xmax = NoXid
                    /\ t.oid \notin BuiltinOids
                    /\ t.spcowner = op'[s].user) =>
                 pc'[s] = "drop_delete"
          /\ (pc[s] = "drop_delete" /\ ~op[s].stale /\ pc'[s] # "drop_delete") =>
                 pc'[s] = "drop_lwlock"
          /\ (/\ pc[s] = "drop_destroy"
              /\ DbDirsHolding(fs, op[s].oid, {"live", "unlinked"}) = {}
              /\ pc'[s] # "drop_destroy") =>
                 /\ pc'[s] = AfterLocal(s)
                 /\ wal' = Append(wal, XLogDrop(op[s].oid))
                 /\ fs'.link[op[s].oid] = NoLink
          /\ (/\ pc[s] = "commit" /\ op[s].kind = "drop" /\ ret[s].err = "ok"
              /\ pc'[s] = "idle") =>
                 /\ get_tablespace_oid_scan(pg_tablespace', s, op[s].name) = InvalidOid
                 /\ get_tablespace_name(pg_tablespace', s, op[s].oid) = NoName]_vars

(* the Drop of an owner who is not a superuser is about to commit *)
C5_Witness ==
    \E s \in Sessions :
        /\ pc[s] = "commit" /\ op[s].kind = "drop" /\ ret[s].err = "ok"
        /\ op[s].user = "u1" /\ op[s].oid \in UserOids
        /\ fs.link[op[s].oid] = NoLink
        /\ wal # <<>> /\ wal[Len(wal)] = XLogDrop(op[s].oid)

(* C6: every relation is bound to a tablespace whose row has not been
   removed by a committed Drop, and a Drop gets past the removal of the
   directories only when no relation is bound to the tablespace and none of
   its directories holds a file *)
C6_NoDanglingBinding ==
    /\ [](\A r \in Rels :
             pg_class[r] # NoRel =>
                 \E t \in LiveRows : t.oid = pg_class[r].spc)
    /\ [][\A s \in Sessions :
             (/\ pc[s] \in {"drop_destroy", "drop_retry"}
              /\ pc'[s] \in {"commit", "dispatch"}) =>
                 /\ \A r \in Rels : pg_class[r] = NoRel \/ pg_class[r].spc # op[s].oid
                 /\ DbDirsHolding(fs, op[s].oid, {"live", "unlinked"}) = {}]_vars

(* a Drop is at its second try while a relation is bound to the tablespace *)
C6_Witness ==
    \E s \in Sessions, r \in Rels :
        /\ pc[s] = "drop_retry"
        /\ pg_class[r] # NoRel /\ pg_class[r].spc = op[s].oid
        /\ pg_class[r].xmin = Committed

(* C7 as stated: the rows of the two built-in tablespaces keep their names
   and OIDs and are never deleted *)
C7_BuiltinsKeepNames ==
    /\ \E t \in LiveRows :
          t.oid = DEFAULTTABLESPACE_OID /\ t.spcname = Name_pg_default
    /\ \E t \in LiveRows :
          t.oid = GLOBALTABLESPACE_OID /\ t.spcname = Name_pg_global

BadCreateErrors == {"invalid_name", "invalid_object_definition", "reserved_name"}

(* C8: CREATE TABLESPACE by a superuser with a location that holds a single
   quote, a location that is not absolute, or a reserved name without
   allow_system_table_mods raises the matching error, and neither that
   step nor the rollback changes the catalog, the filesystem, the log or
   the dispatch state *)
C8_CreateRejects ==
    [][\A s \in Sessions :
          /\ (pc[s] = "idle" /\ op'[s].kind = "create" /\ superuser(op'[s].user)) =>
                LET loc == op'[s].rawLocation
                    quote == \E i \in 1..Len(loc) : loc[i] = "'"
                    relative == Len(loc) = 0 \/ loc[1] # "/"
                    reserved == /\ ~op'[s].allowSystemTableMods
                                /\ SubSeq(op'[s].name, 1, 3) = <<"p", "g", "_">>
                IN  /\ quote => ret'[s].err = "invalid_name"
                    /\ (~quote /\ relative) => ret'[s].err = "invalid_object_definition"
                    /\ (~quote /\ ~relative /\ reserved) => ret'[s].err = "reserved_name"
                    /\ (quote \/ relative \/ reserved) =>
                          /\ pc'[s] = "abort"
                          /\ UNCHANGED <<pg_tablespace, nextOid, fs, wal, dispatched>>
          /\ (/\ pc[s] = "abort" /\ op[s].kind = "create"
              /\ ret[s].err \in BadCreateErrors /\ pc'[s] = "idle") =>
                 /\ ~dispatched[s]
                 /\ UNCHANGED <<pg_tablespace, nextOid, fs, wal, dispatched>>]_vars

C8_Witness ==
    \E s \in Sessions :
        /\ pc[s] = "abort" /\ op[s].kind = "create"
        /\ op[s].name = Name_pg_x /\ ~op[s].allowSystemTableMods
        /\ ret[s].err = "reserved_name"

(* the version directory and the symlink the record names are in place *)
AlreadyCreated(f, record) ==
    /\ FsDir(record.ts_path) \in f.verdir
    /\ f.link[record.ts_id] = record.ts_path

(* C9: replaying a create record over a filesystem that has the version
   directory and the symlink raises no error and leaves the version
   directories and symlinks as they were; with the directory empty, as
   after the create, nothing changes at all; and a second replay of the
   record changes nothing *)
C9_RedoCreateIdempotent ==
    [][(/\ InRecovery /\ replayPos' = replayPos + 1
        /\ wal[replayPos].info = "XLOG_TBLSPC_CREATE"
        /\ AlreadyCreated(fs, wal[replayPos])) =>
           /\ redoErr' = "ok"
           /\ fs'.verdir = fs.verdir /\ fs'.link = fs.link
           /\ (\A db \in Dbs : <<FsDir(wal[replayPos].ts_path), db>> \notin fs.dbdir)
                 => fs' = fs
           /\ \A cleaned \in BOOLEAN :
                  tblspc_redo(fs', wal[replayPos], cleaned) =
                      [fs |-> fs', err |-> "ok"]]_vars

C9_Witness ==
    /\ InRecovery /\ replayPos > 1 /\ redoErr = "ok"
    /\ wal[replayPos - 1].info = "XLOG_TBLSPC_CREATE"
    /\ AlreadyCreated(redoPre, wal[replayPos - 1])
    /\ fs = redoPre

(* C10: when the run ended with no transaction in progress, replay of its
   records in log order, from the state at the end (at any record) or from
   a state the run passed through (at the first record), with every
   location the run had still there, raises no error
   and ends with the version directories and symlinks the run ended with;
   during replay the filesystem changes only by applying the next record *)
C10_ReplayReachesRunState ==
    /\ []((InRecovery /\ fsAtCrash.clean /\ fs.locdir = ExistingDirs) =>
             /\ redoErr = "ok"
             /\ replayPos > Len(wal) =>
                   /\ fs.verdir = fsAtCrash.fs.verdir
                   /\ fs.link = fsAtCrash.fs.link)
    /\ [][(InRecovery /\ fs' # fs) =>
             /\ replayPos' = replayPos + 1
             /\ \E cleaned \in BOOLEAN :
                    fs' = tblspc_redo(fs, wal[replayPos], cleaned).fs]_vars

(* replay from a copy taken while a tablespace dropped later existed has
   ended; the log holds a create and a drop *)
C10_Witness ==
    /\ InRecovery /\ fsAtCrash.clean /\ replayPos > Len(wal)
    /\ fs.locdir = ExistingDirs
    /\ backup.taken /\ backup.fs.verdir # fsAtCrash.fs.verdir
    /\ backup.fs.verdir # {}
    /\ \E i \in 1..Len(wal) : wal[i].info = "XLOG_TBLSPC_DROP"
    /\ fs.verdir = fsAtCrash.fs.verdir /\ fs.link = fsAtCrash.fs.link

(* C12: after a series of renames of one tablespace that ends with the
   name it started with (Rename(A, B) then Rename(B, A) is the shortest),
   the catalog rows (OID, name, owner), the filesystem and the bindings of
   the relations are what they were before the first rename *)
C12_RenameRoundTrip ==
    (/\ snap.taken
     /\ \A s \in Sessions : pc[s] = "idle"
     /\ get_tablespace_name(pg_tablespace, "s1", snap.oid) = snap.name) =>
        /\ pg_tablespace = snap.rows
        /\ fs = snap.fs
        /\ pg_class = snap.pg_class

(* the rename back to the first name is about to commit; the tablespace
   has an owner who is not the renaming user and holds a relation *)
C12_Witness ==
    /\ snap.taken /\ pc["s1"] = "commit" /\ op["s1"].kind = "rename"
    /\ op["s1"].newname = snap.name /\ op["s1"].name # snap.name
    /\ op["s1"].oid = snap.oid /\ op["s1"].owner # op["s1"].user
    /\ \E r \in Rels : pg_class[r] # NoRel /\ pg_class[r].spc = snap.oid

(* positions inside the directory step of Drop and of the lazy creation
   of a per-database directory *)
LockedDirPcs == {"drop_destroy", "drop_retry", "dbspace_mkdir"}

(* the step changes version directories, symlinks or per-database
   directories *)
DirsChanged ==
    \/ fs'.verdir # fs.verdir
    \/ fs'.link # fs.link
    \/ fs'.dbdir # fs.dbdir

(* C13 as stated: no directory step of Create, Drop or the lazy directory
   creation is taken while another session is inside its directory step *)
C13_AllSerialized ==
    [][\A s \in Sessions :
          (pc[s] \in LockedDirPcs \cup {"create_dirs"} /\ pc'[s] # pc[s]) =>
              \A w \in Sessions \ {s} : pc[w] \notin LockedDirPcs]_vars

(* C13: a session is inside the directory step of Drop or of the lazy
   directory creation exactly while it holds TablespaceCreateLock, so no
   two are inside at the same time; and every change of directories made
   by a statement other than Create is made by the holder of the lock *)
C13_DropAndDbspaceSerialized ==
    /\ [](\A s \in Sessions :
             /\ pc[s] \in LockedDirPcs <=> TablespaceCreateLock = s
             /\ \A w \in Sessions \ {s} :
                   ~(pc[s] \in LockedDirPcs /\ pc[w] \in LockedDirPcs))
    /\ [][\A s \in Sessions :
             (DirsChanged /\ pc'[s] # pc[s] /\ op[s].kind # "create") =>
                 TablespaceCreateLock = s]_vars

(* a Drop waits for the lock held by a lazy directory creation *)
C13_Witness ==
    \E s, w \in Sessions :
        /\ pc[s] = "dbspace_mkdir" /\ TablespaceCreateLock = s
        /\ pc[w] = "drop_lwlock"

(* C14: outside recovery no two rows of committed transactions have
   symlinks to the same location; a Create whose location holds the version
   directory already fails with "already in use", leaves the filesystem as
   it was, and its row is gone after the rollback *)
C14_NoAliasing ==
    /\ [](~InRecovery =>
             \A t, u \in LiveRows :
                 (/\ t.oid \in UserOids /\ u.oid \in UserOids /\ t.oid # u.oid
                  /\ fs.link[t.oid] # NoLink /\ fs.link[u.oid] # NoLink) =>
                     FsDir(fs.link[t.oid]) # FsDir(fs.link[u.oid]))
    /\ [][\A s \in Sessions :
             /\ (/\ pc[s] = "create_dirs" /\ pc'[s] # "create_dirs"
                 /\ StripTrailingSlashes(op[s].rawLocation) \in fs.verdir) =>
                    /\ pc'[s] = "abort"
                    /\ ret'[s].err = "object_in_use"
                    /\ fs' = fs /\ wal' = wal
             /\ (/\ pc[s] = "abort" /\ op[s].kind = "create"
                 /\ ret[s].err = "object_in_use" /\ pc'[s] = "idle") =>
                    /\ \A t \in pg_tablespace' : t.oid # op[s].oid
                    /\ fs'.link[op[s].oid] = NoLink]_vars

(* a Create that spells the location of a live tablespace with a trailing
   slash was turned away *)
C14_Witness ==
    \E s \in Sessions :
        /\ pc[s] = "abort" /\ op[s].kind = "create"
        /\ ret[s].err = "object_in_use"
        /\ op[s].rawLocation = Path_a_slash
        /\ \E t \in LiveRows : t.oid \in UserOids /\ fs.link[t.oid] = Path_a

(* the statement of s changed the catalog: a Create past its insert or a
   Drop past its row deletion *)
ChangedCatalog(s) ==
    /\ op[s].kind \in {"create", "drop"}
    /\ \E t \in pg_tablespace : t.xmin = s \/ t.xmax = s

(* C15: on a coordinator a Create or Drop that changed the catalog reaches
   its commit only after the dispatch returned without error; an error on
   a worker aborts the transaction, and after the rollback the row of a
   failed Create is gone and the row of a failed Drop is live again *)
C15_WorkerFailureCancels ==
    /\ [](\A s \in Sessions :
             (Gp_role = "dispatch" /\ pc[s] = "commit" /\ ChangedCatalog(s)) =>
                 dispatched[s] /\ ret[s].err = "ok")
    /\ [][\A s \in Sessions :
             /\ (pc[s] = "dispatch" /\ pc'[s] # "dispatch"
                 /\ ret'[s].err = "dispatch_error") => pc'[s] = "abort"
             /\ (/\ pc[s] = "abort" /\ ret[s].err = "dispatch_error"
                 /\ pc'[s] = "idle") =>
                    IF op[s].kind = "create"
                    THEN get_tablespace_name(pg_tablespace', s, op[s].oid) = NoName
                    ELSE /\ get_tablespace_oid_scan(pg_tablespace', s, op[s].name)
                               = op[s].oid
                         /\ \A t \in pg_tablespace' : t.xmax = NoXid]_vars

(* a Drop is rolling back after an error on a worker *)
C15_Witness ==
    \E s \in Sessions :
        /\ pc[s] = "abort" /\ op[s].kind = "drop"
        /\ ret[s].err = "dispatch_error" /\ dispatched[s]
        /\ \E t \in pg_tablespace : t.oid = op[s].oid /\ t.xmax = s

(* C16: a Create or Drop that reports success has written its own log
   record (the create record with its id and location, the drop record
   with its id) and has forced a synchronous commit *)
C16_LoggedBeforeSuccess ==
    \A s \in Sessions :
        (pc[s] = "commit" /\ ret[s].err = "ok"
         /\ op[s].kind \in {"create", "drop"}) =>
            /\ forceSync[s]
            /\ \E i \in 1..Len(wal) :
                  wal[i] = IF op[s].kind = "create"
                           THEN XLogCreate(op[s].oid, op[s].location)
                           ELSE [info |-> "XLOG_TBLSPC_DROP",
                                 ts_id |-> op[s].oid, ts_path |-> NoLink]
            /\ op[s].oid \in UserOids

(* a Drop reports success with a create record of another tablespace and
   its own drop record in the log *)
C16_Witness ==
    \E s \in Sessions :
        /\ pc[s] = "commit" /\ ret[s].err = "ok" /\ op[s].kind = "drop"
        /\ dispatched[s] /\ Len(wal) >= 2
        /\ wal[Len(wal)].ts_id = op[s].oid

(* C18: with no crash, whenever no statement is running, a tablespace row
   exists exactly when its symbolic link and its version directory exist *)
C18_RowIffDirectories ==
    (~InRecovery /\ \A s \in Sessions : pc[s] = "idle") =>
        \A oid \in UserOids :
            (\E t \in LiveRows : t.oid = oid) <=>
                (/\ fs.link[oid] # NoLink
                 /\ FsDir(fs.link[oid]) \in fs.verdir)

(* the row version a lookup of s scanned is still the live one *)
ScannedVersionLive(s) ==
    \E t \in pg_tablespace : /\ t.oid = op[s].oid /\ t.spcname = op[s].name
                             /\ t.xmin = Committed /\ t.xmax = NoXid

(* C19 as stated: a lookup whose row is being updated or deleted by
   another transaction does not wait, it can take its step at once *)
C19_NeverWaits ==
    \A s \in Sessions : pc[s] = "lookup_lock" => ENABLED LookupLock(s)

(* C19: the lookup waits exactly while another transaction in progress is
   updating or deleting the row; when the wait is over it reports a
   serialization failure if the scanned version is no longer live, and
   otherwise holds the key-share lock and returns the id *)
C19_WaitsThenFails ==
    /\ [](\A s \in Sessions : pc[s] = "lookup_lock" =>
             /\ ENABLED LookupLock(s) <=> ~XmaxBusy(s, op[s].oid)
             /\ ~XmaxBusy(s, op[s].oid) =>
                    (op[s].stale <=> ~ScannedVersionLive(s)))
    /\ [][\A s \in Sessions :
             (pc[s] = "lookup_lock" /\ pc'[s] # "lookup_lock") =>
                 IF ScannedVersionLive(s)
                 THEN /\ ret'[s] = [err |-> "ok", oid |-> op[s].oid]
                      /\ <<s, op[s].oid>> \in keyshare'
                      /\ pc'[s] # "abort"
                 ELSE /\ ret'[s].err = "serialization_failure"
                      /\ pc'[s] = "abort"
                      /\ keyshare' = keyshare]_vars

(* a lookup fails after the transaction that deleted its row committed *)
C19_Witness ==
    \E s \in Sessions :
        /\ pc[s] = "abort" /\ op[s].kind = "lookup"
        /\ ret[s].err = "serialization_failure"
        /\ get_tablespace_name(pg_tablespace, s, op[s].oid) = NoName

(* C17 as stated: replay never ends with an error *)
C17_RedoNeverFails == InRecovery => redoErr = "ok"

(* C17: replay of a drop record raises no error whatever it finds; replay
   of a create record raises an error when the location is missing, it
   leaves the filesystem as it was, and no further record is replayed *)
C17_OnlyDropDowngraded ==
    /\ [](InRecovery /\ redoErr # "ok" =>
             \A cleaned \in BOOLEAN : ~ENABLED RedoStep(cleaned))
    /\ [][(InRecovery /\ replayPos' = replayPos + 1) =>
             IF wal[replayPos].info = "XLOG_TBLSPC_DROP"
             THEN redoErr' = "ok"
             ELSE IF FsDir(wal[replayPos].ts_path) \in fs.locdir
                  THEN redoErr' = "ok"
                  ELSE redoErr' = "undefined_file" /\ fs' = fs]_vars

(* replay stopped at a create record whose location is missing, with a
   record after it not replayed *)
C17_Witness ==
    /\ InRecovery /\ redoErr = "undefined_file"
    /\ replayPos <= Len(wal)
    /\ wal[replayPos - 1].info = "XLOG_TBLSPC_CREATE"
    /\ FsDir(wal[replayPos - 1].ts_path) \notin fs.locdir

(* the names a value of temp_tablespaces lists, written out *)
ConfigEntries(g) ==
    IF g = Guc_two THEN <<Name_ts2, Name_ts1>>
    ELSE IF g = Guc_quoted THEN <<NoName, Name_ts1>>
    ELSE IF g = Guc_default THEN <<Name_pg_default, Name_ts1>>
    ELSE <<>>

(* what one entry contributes: the sentinel for an empty entry or the
   database default, the id of a tablespace that s looked up (it holds the
   row lock) and on which the user may create, nothing otherwise *)
EntryOids(s, name) ==
    LET rows == {t \in LiveRows : t.spcname = name /\ <<s, t.oid>> \in keyshare}
    IN  IF name = NoName THEN <<InvalidOid>>
        ELSE IF rows = {} THEN <<>>
        ELSE LET t == CHOOSE r \in rows : TRUE
             IN  IF t.oid = DEFAULTTABLESPACE_OID THEN <<InvalidOid>>
                 ELSE IF temp.user = "su" \/ t.spcowner = temp.user
                      THEN <<t.oid>>
                      ELSE <<>>

RECURSIVE ExpectedSpcs(_, _)
ExpectedSpcs(s, names) ==
    IF names = <<>> THEN <<>>
    ELSE EntryOids(s, Head(names)) \o ExpectedSpcs(s, Tail(names))

(* C20 as stated: preparing the temporary tablespaces never raises an
   error *)
C20_NeverRaises == \A s \in Sessions : pc[s] # "temp_error"

(* C20: once PrepareTempTablespaces has returned, the list holds, in the
   order of the configured entries, the sentinel for each empty entry and
   each entry naming the database default and the id of each other entry
   that resolved when it was looked up and on which the user has the
   create privilege; a later call in the transaction changes nothing; the
   only error is the serialization failure for an entry whose row another
   transaction changed or dropped *)
C20_ListBuiltOnce ==
    /\ [](\A s \in Sessions :
             /\ pc[s] = "temp_ready" =>
                   /\ temp.set
                   /\ temp.spcs = ExpectedSpcs(s, ConfigEntries(temp.guc))
             /\ pc[s] = "temp_error" =>
                   /\ ret[s].err = "serialization_failure"
                   /\ ~ScannedVersionLive(s))
    /\ [][\A s \in Sessions :
             (pc[s] = "temp_ready" /\ pc'[s] # "idle") =>
                 /\ pc'[s] = "temp_ready"
                 /\ temp'.spcs = temp.spcs
                 /\ {l \in keyshare' : l[1] = s} = {l \in keyshare : l[1] = s}]_vars

(* the second call of a transaction has returned; the list has the two
   configured tablespaces, the one created later first *)
C20_Witness ==
    /\ pc["s1"] = "temp_ready" /\ temp.calls = 2
    /\ temp.guc = Guc_two /\ Len(temp.spcs) = 2
    /\ temp.spcs[1] > temp.spcs[2]

(* another session holds a lock on r that conflicts with the move of s *)
LockedByOther(s, r) == \E w \in Sessions \ {s} : <<w, r>> \in relLocks

(* C11: a move with NOWAIT that comes to a relation of the caller which
   another session has locked fails with "object in use", and no relation is bound to another
   tablespace, neither by that step nor before it: bindings change only
   when every relation of the list is locked, and never for a relation
   another session holds locked *)
C11_MoveNowaitAllOrNothing ==
    /\ [][\A s \in Sessions :
             /\ (/\ pc[s] = "move_scan" /\ op'[s] # op[s]
                 /\ op[s].nowait /\ LockedByOther(s, op'[s].rel)
                 /\ pg_class_ownercheck(op'[s].rel, op[s].user)) =>
                    /\ pc'[s] = "move_abort"
                    /\ ret'[s].err = "object_in_use"
                    /\ pg_class' = pg_class /\ fs' = fs
                    /\ \A r \in op[s].todo \cup op[s].locked :
                          pg_class[r].spc = op[s].oid
             /\ (pc[s] = "move_scan" /\ pc'[s] = "move_abort"
                 /\ pg_class_ownercheck(op'[s].rel, op[s].user)) =>
                    op[s].nowait /\ LockedByOther(s, op'[s].rel)
             /\ (pc[s] = "move_scan" /\ pg_class' # pg_class) =>
                    /\ op[s].todo = {}
                    /\ \A r \in Rels : pg_class'[r] # pg_class[r] =>
                          <<s, r>> \in relLocks /\ ~LockedByOther(s, r)]_vars
    /\ [](\A s \in Sessions :
             (pc[s] = "move_scan" /\ op[s].nowait) =>
                 \A r \in op[s].todo :
                    LockedByOther(s, r) => ENABLED MoveLock(s, r))

(* the move has locked one relation and failed at the other, which s2
   holds; both are still in the tablespace they were in *)
C11_Witness ==
    /\ pc["s1"] = "move_abort" /\ ret["s1"].err = "object_in_use"
    /\ op["s1"].locked # {} /\ LockedByOther("s1", op["s1"].rel)
    /\ \A r \in op["s1"].todo \cup op["s1"].locked :
          pg_class[r].spc = op["s1"].oid

(* C21: GetDefaultTablespace returns InvalidOid for an empty name, for a
   name its scan does not find and for the database's own tablespace, and
   otherwise the id of the live row of that name, on which it then holds
   the row lock; it never fails with "undefined object" *)
C21_DefaultTablespace ==
    /\ [](\A s \in Sessions : op[s].kind = "default" =>
             /\ ret[s].err # "undefined_object"
             /\ pc[s] = "abort" => ret[s].err = "serialization_failure"
             /\ pc[s] = "commit" =>
                   /\ ret[s].err = "ok"
                   /\ ret[s].oid # DEFAULTTABLESPACE_OID
                   /\ ret[s].oid # InvalidOid =>
                         \E t \in LiveRows :
                            /\ t.oid = ret[s].oid /\ t.spcname = op[s].name
                            /\ <<s, t.oid>> \in keyshare
                   /\ ret[s].oid = InvalidOid =>
                         \/ op[s].name \in {NoName, Name_pg_default}
                         \/ \A t \in LiveRows :
                               t.spcname = op[s].name => <<s, t.oid>> \notin keyshare)
    /\ [][\A s \in Sessions :
             (pc[s] = "idle" /\ op'[s].kind = "default") =>
                 LET n == op'[s].name
                     rows == {t \in LiveRows : t.spcname = n /\ t.xmax # s}
                 IN  IF n = NoName \/ rows = {}
                     THEN pc'[s] = "commit" /\ ret'[s].oid = InvalidOid
                     ELSE pc'[s] = "default_lock"
                          /\ op'[s].oid \in {t.oid : t \in rows}]_vars

(* the id of a tablespace a user created is returned *)
C21_Witness ==
    \E s \in Sessions :
        /\ op[s].kind = "default" /\ pc[s] = "commit"
        /\ ret[s].oid \in UserOids /\ op[s].name = Name_ts2

(* the database's own tablespace was named and looked up *)
C21_WitnessOwn ==
    \E s \in Sessions :
        /\ op[s].kind = "default" /\ pc[s] = "commit"
        /\ op[s].name = Name_pg_default /\ ret[s].oid = InvalidOid
        /\ <<s, DEFAULTTABLESPACE_OID>> \in keyshare

(* what a statement may not touch when it is without effect *)
EffectVars == <<pg_tablespace, pg_class, keyshare, TablespaceCreateLock, fs,
                wal, dispatched, forceSync, nextOid>>

(* C22: a Drop of a name that no tablespace has returns at once, with a
   notice when missing_ok is set and with "undefined object" otherwise;
   neither that step nor the end of the statement changes a catalog row,
   the filesystem, a lock or the log, and nothing is dispatched *)
C22_DropMissingNoEffect ==
    /\ [][\A s \in Sessions :
             /\ (/\ pc[s] = "idle" /\ op'[s].kind = "drop"
                 /\ \A t \in LiveRows : t.spcname # op'[s].name) =>
                    /\ pc'[s] = IF op'[s].missing_ok THEN "commit" ELSE "abort"
                    /\ ret'[s].err = IF op'[s].missing_ok THEN "skipped"
                                     ELSE "undefined_object"
                    /\ UNCHANGED EffectVars
             /\ (/\ op[s].kind = "drop" /\ pc'[s] # pc[s]
                 /\ ret[s].err \in {"skipped", "undefined_object"}) =>
                    /\ pc'[s] = "idle"
                    /\ UNCHANGED EffectVars]_vars
    /\ [](\A s \in Sessions :
             (op[s].kind = "drop"
              /\ ret[s].err \in {"skipped", "undefined_object"}) =>
                 /\ ~dispatched[s] /\ ~forceSync[s]
                 /\ TablespaceCreateLock # s
                 /\ \A t \in pg_tablespace : t.xmax # s)

(* DROP TABLESPACE IF EXISTS of a missing name has returned, on a
   coordinator, with another tablespace and its log record in place *)
C22_Witness ==
    \E s \in Sessions :
        /\ op[s].kind = "drop" /\ op[s].missing_ok /\ pc[s] = "commit"
        /\ ret[s].err = "skipped" /\ Gp_role = "dispatch"
        /\ Len(wal) > 0 /\ \E t \in LiveRows : t.oid \in UserOids

(* the files that wait for the next checkpoint *)
Lingering(f) == {r \in Rels : f.relfile[r].state = "unlinked"}

DropLogged == Len(wal') = Len(wal) + 1 /\ wal'[Len(wal')].info = "XLOG_TBLSPC_DROP"

(* the steps of a DROP TABLESPACE in the order of the code *)
DropSteps ==
    {<<"idle", "drop_delete">>, <<"idle", "commit">>, <<"idle", "abort">>,
     <<"drop_delete", "drop_lwlock">>, <<"drop_delete", "abort">>,
     <<"drop_lwlock", "drop_destroy">>,
     <<"drop_destroy", "drop_retry">>, <<"drop_destroy", "dispatch">>,
     <<"drop_retry", "dispatch">>, <<"drop_retry", "abort">>,
     <<"drop_destroy", "commit">>, <<"drop_retry", "commit">>,
     <<"dispatch", "commit">>, <<"dispatch", "abort">>,
     <<"commit", "idle">>, <<"abort", "idle">>}

(* C23: a Drop is validated, removes the catalog row, destroys the
   directories, writes its log record and commits, in that order; the
   record is written only by a destruction that succeeded; "is not empty"
   is raised only by the one retry that follows the one checkpoint, and a
   first attempt that succeeds requests no checkpoint *)
C23_DropOrder ==
    /\ [][\A s \in Sessions :
             (pc'[s] # pc[s] /\ (IF pc[s] = "idle" THEN op'[s] ELSE op[s]).kind = "drop") =>
                 LET oid == op[s].oid
                     first == pc[s] = "drop_destroy"
                     second == pc[s] = "drop_retry"
                     attempts == destroy_tablespace_directories(fs, oid, FALSE)
                 IN  /\ <<pc[s], pc'[s]>> \in DropSteps
                     /\ (first \/ second) =>
                            \E t \in pg_tablespace : t.oid = oid /\ t.xmax = s
                     /\ DropLogged =>
                            /\ first \/ second
                            /\ \E out \in attempts : out.result /\ fs' = out.fs
                            /\ fs'.link[oid] = NoLink
                            /\ wal'[Len(wal')].ts_id = oid
                            /\ forceSync'[s] /\ pc'[s] = AfterLocal(s)
                     /\ ~DropLogged => wal' = wal
                     /\ (first /\ \E out \in attempts : out.result) =>
                            DropLogged /\ Lingering(fs') = Lingering(fs)
                     /\ (first /\ \E out \in attempts : ~out.result) =>
                            pc'[s] = "drop_retry" /\ Lingering(fs') = {}
                     /\ second =>
                            /\ Lingering(fs') = Lingering(fs)
                            /\ \E out \in attempts : fs' = out.fs
                     /\ (ret'[s].err = "object_not_in_prerequisite_state"
                         /\ pc[s] # "idle") =>
                            /\ second
                            /\ \E out \in attempts : ~out.result
                     /\ (pc[s] = "commit" /\ ret[s].err # "skipped") =>
                            \E i \in 1..Len(wal) :
                                wal[i] = XLogDrop(oid)]_vars
    /\ [](\A s \in Sessions :
             (op[s].kind = "drop" /\ pc[s] \in {"drop_lwlock", "drop_destroy",
                                               "drop_retry", "dispatch"}) =>
                 /\ \E t \in pg_tablespace : t.oid = op[s].oid /\ t.xmax = s
                 /\ forceSync[s] = (pc[s] = "dispatch")
                 /\ (TablespaceCreateLock = s) =
                        (pc[s] \in {"drop_destroy", "drop_retry"}))

(* a first attempt failed on a file that waited for the checkpoint, the
   retry succeeded and the record is written *)
C23_Witness ==
    \E s \in Sessions :
        /\ op[s].kind = "drop" /\ pc[s] = "drop_retry"
        /\ Lingering(fs) = {} /\ fs.link[op[s].oid] # NoLink
        /\ \E out \in destroy_tablespace_directories(fs, op[s].oid, FALSE) :
               out.result

CreateLogged == Len(wal') = Len(wal) + 1 /\ wal'[Len(wal')].info = "XLOG_TBLSPC_CREATE"

(* the steps of a CREATE TABLESPACE in the order of the code *)
CreateSteps ==
    {<<"idle", "create_lock">>, <<"idle", "create_insert">>, <<"idle", "abort">>,
     <<"create_lock", "abort">>,
     <<"create_insert", "create_dirs">>, <<"create_insert", "abort">>,
     <<"create_dirs", "dispatch">>, <<"create_dirs", "commit">>,
     <<"create_dirs", "abort">>,
     <<"dispatch", "commit">>, <<"dispatch", "abort">>,
     <<"commit", "idle">>, <<"abort", "idle">>}

(* the row the running Create of s inserted *)
InsertedRow(s) ==
    \E t \in pg_tablespace : /\ t.oid = op[s].oid /\ t.xmin = s
                             /\ t.spcname = op[s].name

(* C24: a Create validates, inserts the catalog row, creates the
   directories, writes its log record, forces a synchronous commit and
   then dispatches; a step that fails is followed by no later step: the
   record is written only for an id whose symlink the same Create made,
   and nothing is dispatched unless all of that succeeded *)
C24_CreateOrder ==
    /\ [][\A s \in Sessions :
             (pc'[s] # pc[s] /\ (IF pc[s] = "idle" THEN op'[s] ELSE op[s]).kind = "create") =>
                 LET oid == op[s].oid
                     failed == pc'[s] = "abort"
                 IN  /\ <<pc[s], pc'[s]>> \in CreateSteps
                     /\ pc[s] \in {"idle", "create_lock"} =>
                            UNCHANGED <<pg_tablespace, fs, wal, forceSync, dispatched>>
                     /\ pc[s] = "create_insert" =>
                            /\ UNCHANGED <<fs, wal, forceSync, dispatched>>
                            /\ failed => UNCHANGED pg_tablespace
                     /\ pc[s] = "create_dirs" =>
                            /\ InsertedRow(s) /\ fs.link[oid] = NoLink
                            /\ UNCHANGED <<pg_tablespace, dispatched>>
                            /\ failed => /\ UNCHANGED <<wal, forceSync>>
                                         /\ fs'.link[oid] = NoLink
                     /\ CreateLogged =>
                            /\ pc[s] = "create_dirs" /\ pc'[s] = AfterLocal(s)
                            /\ wal'[Len(wal')] = XLogCreate(oid, op[s].location)
                            /\ fs'.link[oid] = op[s].location
                            /\ forceSync'[s]
                     /\ ~CreateLogged => wal' = wal
                     /\ (dispatched'[s] /\ ~dispatched[s]) =>
                            /\ pc[s] = "dispatch" /\ Gp_role = "dispatch"
                            /\ InsertedRow(s) /\ fs.link[oid] = op[s].location
                            /\ forceSync[s]
                            /\ \E i \in 1..Len(wal) :
                                   wal[i] = XLogCreate(oid, op[s].location)]_vars
    /\ [](\A s \in Sessions :
             (op[s].kind = "create" /\ pc[s] = "abort"
              /\ ret[s].err # "dispatch_error") =>
                 ~dispatched[s] /\ ~forceSync[s])

(* a Create whose directories could not be made has stopped: the row is
   inserted, nothing is logged or dispatched *)
C24_Witness ==
    \E s \in Sessions :
        /\ op[s].kind = "create" /\ pc[s] = "abort" /\ InsertedRow(s)
        /\ fs.link[op[s].oid] = NoLink /\ ~dispatched[s] /\ ~forceSync[s]
        /\ \A i \in 1..Len(wal) : wal[i].ts_id # op[s].oid

(* a Create that went through every step and was dispatched *)
C24_WitnessDone ==
    \E s \in Sessions :
        /\ op[s].kind = "create" /\ pc[s] = "commit" /\ dispatched[s]
        /\ InsertedRow(s) /\ fs.link[op[s].oid] = op[s].location

(* the one outcome of destroy_tablespace_directories in redo mode *)
RedoDestroy(f, tablespaceoid) ==
    CHOOSE out \in destroy_tablespace_directories(f, tablespaceoid, TRUE) : TRUE

(* C25: replay of a drop record destroys the directories in redo mode;
   only when that fails it resolves the recovery conflict and tries once
   more; whatever the second attempt returns, the replay raises no error,
   has made at most two attempts, and the next record can be replayed *)
C25_RedoDropRetriesOnce ==
    /\ [][(InRecovery /\ replayPos' = replayPos + 1
           /\ wal[replayPos].info = "XLOG_TBLSPC_DROP") =>
             LET id == wal[replayPos].ts_id
                 first == RedoDestroy(fs, id)
             IN  /\ redoErr' = "ok"
                 /\ first.result => fs' = first.fs
                 /\ ~first.result =>
                       \E cleaned \in BOOLEAN :
                           /\ tblspc_redo(fs, wal[replayPos], cleaned).attempts = 2
                           /\ fs' = RedoDestroy(
                                        ResolveRecoveryConflictWithTablespace(
                                            first.fs, id, cleaned), id).fs
                 /\ \A cleaned \in BOOLEAN :
                       tblspc_redo(fs, wal[replayPos], cleaned).attempts =
                           IF first.result THEN 1 ELSE 2]_vars
    /\ []((InRecovery /\ replayPos > 1
           /\ wal[replayPos - 1].info = "XLOG_TBLSPC_DROP") =>
             /\ redoErr = "ok"
             /\ replayPos <= Len(wal) =>
                   \A cleaned \in BOOLEAN : ENABLED RedoStep(cleaned))

(* a drop record has been replayed over a tablespace in which a standby
   backend keeps a temporary file: both attempts failed, the directories
   are still there and the replay goes on *)
C25_Witness ==
    /\ InRecovery /\ replayPos > 1 /\ redoErr = "ok"
    /\ wal[replayPos - 1].info = "XLOG_TBLSPC_DROP"
    /\ ~RedoDestroy(redoPre, wal[replayPos - 1].ts_id).result
    /\ fs.link[wal[replayPos - 1].ts_id] # NoLink
    /\ \E r \in Rels : fs.relfile[r].state = "temp"

(* the retry removed the directories after the conflict was resolved *)
C25_WitnessRetried ==
    /\ InRecovery /\ replayPos > 1 /\ redoErr = "ok"
    /\ wal[replayPos - 1].info = "XLOG_TBLSPC_DROP"
    /\ ~RedoDestroy(redoPre, wal[replayPos - 1].ts_id).result
    /\ fs.link[wal[replayPos - 1].ts_id] = NoLink

(* C26 as stated: a create_tablespace_directories that fails leaves no
   symlink without its version directory, and a location that could be
   used before the call can be used by the next Create, once the cause of
   the failure is gone *)
C26_FailureLeavesReusable ==
    [][\A s \in Sessions :
          (pc[s] = "create_dirs" /\ pc'[s] = "abort") =>
              LET d == FsDir(op[s].location)
                  before == create_tablespace_directories(
                                [fs EXCEPT !.nospace = FALSE],
                                op[s].location, op[s].oid, FALSE)
                  later == create_tablespace_directories(
                                [fs' EXCEPT !.nospace = FALSE],
                                op[s].location, op[s].oid, FALSE)
              IN  /\ fs'.link[op[s].oid] # NoLink => d \in fs'.verdir
                  /\ before.err = "ok" => later.err = "ok"]_vars

(* the relations of this database that are bound to the tablespace the
   move of s takes them from *)
BoundToOrigin(s) ==
    {r \in Rels : /\ RelDb(r) = MyDatabaseId /\ pg_class[r] # NoRel
                  /\ pg_class[r].spc = op[s].oid}

(* C27: a move rewrites a binding only when it holds the exclusive lock
   on every relation it is to move; the steps that collect the relations,
   the failing ones included, rewrite nothing, so a move that fails while
   collecting has moved no relation *)
C27_LockAllBeforeRewrite ==
    /\ [][\A s \in Sessions :
             op[s].kind = "move" =>
                 /\ pg_class' # pg_class =>
                       /\ op[s].todo = {}
                       /\ BoundToOrigin(s) = op[s].locked
                       /\ \A r \in BoundToOrigin(s) :
                             <<s, r>> \in relLocks /\ ~LockedByOther(s, r)
                       /\ \A r \in Rels : pg_class'[r] # pg_class[r] =>
                             r \in op[s].locked
                 /\ pc'[s] \in {"move_scan", "move_abort", "idle"} =>
                       pg_class' = pg_class /\ fs' = fs]_vars
    /\ [](\A s \in Sessions :
             (op[s].kind = "move" /\ pc[s] \in {"move_scan", "move_abort"}) =>
                 /\ \A r \in op[s].todo \cup op[s].locked :
                       pg_class[r].spc = op[s].oid
                 /\ pc[s] = "move_scan" =>
                       BoundToOrigin(s) = op[s].todo \cup op[s].locked)

(* a move of two relations is done: both are in the new tablespace and
   the session holds the lock on both *)
C27_Witness ==
    \E s \in Sessions :
        /\ op[s].kind = "move" /\ pc[s] = "move_done" /\ ret[s].err = "ok"
        /\ Cardinality(op[s].locked) = 2
        /\ \A r \in op[s].locked :
              pg_class[r].spc = op[s].newoid /\ <<s, r>> \in relLocks

(* the relation locks session s acquires in this step *)
NewLocks(s) == {l \in relLocks' \ relLocks : l[1] = s}

(* C28 as stated: a move takes a relation lock only when its scan of
   pg_class has no more relation to return *)
C28_LocksAfterScan ==
    [][\A s \in Sessions :
          (op[s].kind = "move" /\ NewLocks(s) # {}) => op[s].todo = {}]_vars

(* C28: a move takes its relation locks while its scan of pg_class is
   open, one relation at a time as the scan comes to it and after the
   check of its owner; it takes none once the scan has ended, and it
   rewrites bindings only then *)
C28_LocksDuringScan ==
    [][\A s \in Sessions :
          op[s].kind = "move" =>
              /\ NewLocks(s) # {} =>
                    /\ pc[s] = "move_scan" /\ pc'[s] = "move_scan"
                    /\ NewLocks(s) = {<<s, op'[s].rel>>}
                    /\ op'[s].rel \in op[s].todo
                    /\ op'[s].todo = op[s].todo \ {op'[s].rel}
                    /\ superuser(op[s].user) \/ RelOwner(op'[s].rel) = op[s].user
                    /\ pg_class' = pg_class
              /\ pc[s] # "move_scan" => NewLocks(s) = {}
              /\ pg_class' # pg_class =>
                    /\ op[s].todo = {} /\ NewLocks(s) = {}
                    /\ pc[s] = "move_scan" /\ pc'[s] = "move_done"]_vars

(* the scan has returned and locked one relation and has another one to
   return *)
C28_Witness ==
    \E s \in Sessions :
        /\ op[s].kind = "move" /\ pc[s] = "move_scan"
        /\ op[s].todo # {} /\ op[s].locked # {}
        /\ <<s, op[s].rel>> \in relLocks

(* the caller of the move of s may move relation r *)
MayMove(s, r) == superuser(op[s].user) \/ RelOwner(r) = op[s].user

(* C29: with NOWAIT the move never waits for a relation lock: the step is
   always possible, and it either takes the lock or, when another session
   holds it, fails with "object in use" and takes nothing; without NOWAIT
   the step is possible exactly when no other session holds the lock, it
   takes the lock, and "object in use" is never raised *)
C29_NowaitNeverWaits ==
    /\ [](\A s \in Sessions :
             (op[s].kind = "move" /\ pc[s] = "move_scan") =>
                 \A r \in op[s].todo :
                    MayMove(s, r) =>
                       IF op[s].nowait
                       THEN ENABLED MoveLock(s, r)
                       ELSE ENABLED MoveLock(s, r) <=> ~LockedByOther(s, r))
    /\ [][\A s \in Sessions :
             (/\ op[s].kind = "move" /\ pc[s] = "move_scan" /\ op'[s] # op[s]
              /\ MayMove(s, op'[s].rel)) =>
                 IF LockedByOther(s, op'[s].rel)
                 THEN /\ op[s].nowait
                      /\ pc'[s] = "move_abort" /\ ret'[s].err = "object_in_use"
                      /\ relLocks' = relLocks
                 ELSE /\ pc'[s] = "move_scan" /\ ret'[s] = ret[s]
                      /\ relLocks' = relLocks \cup {<<s, op'[s].rel>>}]_vars
    /\ [](\A s \in Sessions :
             (op[s].kind = "move" /\ ret[s].err = "object_in_use") =>
                 op[s].nowait /\ <<s, op[s].rel>> \notin relLocks)

(* a move without NOWAIT holds one lock and waits for the other, which
   another session holds *)
C29_Witness ==
    \E s \in Sessions :
        /\ op[s].kind = "move" /\ pc[s] = "move_scan" /\ ~op[s].nowait
        /\ op[s].locked # {}
        /\ \E r \in op[s].todo :
              /\ MayMove(s, r) /\ LockedByOther(s, r)
              /\ ~ENABLED MoveLock(s, r)

(* C30: a move that comes to a relation its caller may not move fails
   there with "not owner" and changes no binding, file or lock, the
   relations it has locked before stay where they were, and the end of
   the failed statement changes no binding either; a move rewrites
   bindings only when the caller may move every relation it found *)
C30_NotOwnerFailsWhole ==
    /\ [][\A s \in Sessions :
             op[s].kind = "move" =>
                 /\ (/\ pc[s] = "move_scan" /\ op'[s] # op[s]
                     /\ ~MayMove(s, op'[s].rel)) =>
                        /\ pc'[s] = "move_abort"
                        /\ ret'[s].err = "not_owner"
                        /\ pg_class' = pg_class /\ fs' = fs
                        /\ relLocks' = relLocks
                 /\ pg_class' # pg_class =>
                        \A r \in BoundToOrigin(s) : MayMove(s, r)
                 /\ (ret[s].err = "not_owner" /\ pc'[s] # pc[s]) =>
                        /\ pc'[s] = "idle" /\ pg_class' = pg_class /\ fs' = fs
                        /\ \A r \in Rels : <<s, r>> \notin relLocks']_vars
    /\ [](\A s \in Sessions :
             (op[s].kind = "move" /\ ret[s].err = "not_owner") =>
                 /\ pc[s] = "move_abort" /\ ~MayMove(s, op[s].rel)
                 /\ \A r \in op[s].locked \cup op[s].todo :
                       pg_class[r].spc = op[s].oid
                       /\ fs.relfile[r].dir = TablespaceDir(fs, op[s].oid))

(* the move has locked a relation of its caller and failed at a relation
   of another owner; both are in the tablespace they were in *)
C30_Witness ==
    \E s \in Sessions :
        /\ op[s].kind = "move" /\ pc[s] = "move_abort"
        /\ ret[s].err = "not_owner" /\ op[s].locked # {}
        /\ \A r \in op[s].locked :
              <<s, r>> \in relLocks /\ pg_class[r].spc = op[s].oid
        /\ pg_class[op[s].rel].spc = op[s].oid

(* the live row a name resolves to for session s *)
Resolved(s, name) == get_tablespace_oid_scan(pg_tablespace, s, name)

(* C31: a move whose two names resolve to one tablespace ends at once: it
   finds and locks no relation and rewrites nothing, and returns the
   tablespace, InvalidOid standing for the database default; a move
   between two tablespaces is not taken for such a move *)
C31_MoveSameIsNoop ==
    /\ [][\A s \in Sessions :
             (pc[s] = "idle" /\ op'[s].kind = "move"
              /\ OidIsValid(Resolved(s, op'[s].name))
              /\ OidIsValid(Resolved(s, op'[s].newname))
              /\ pc'[s] # "move_abort") =>
                 IF Resolved(s, op'[s].name) = Resolved(s, op'[s].newname)
                 THEN /\ pc'[s] = "move_done"
                      /\ op'[s].todo = {} /\ op'[s].locked = {}
                      /\ ret'[s].oid =
                            IF Resolved(s, op'[s].name) = DEFAULTTABLESPACE_OID
                            THEN InvalidOid ELSE Resolved(s, op'[s].name)
                      /\ pg_class' = pg_class /\ fs' = fs
                      /\ relLocks' = relLocks
                 ELSE pc'[s] = "move_scan"]_vars
    /\ [][\A s \in Sessions :
             (op[s].kind = "move" /\ op[s].oid = op[s].newoid) =>
                 /\ pg_class' = pg_class /\ fs' = fs
                 /\ NewLocks(s) = {}
                 /\ pc[s] \in {"move_done", "move_abort"}]_vars

(* a move from the database default to itself is done while relations
   live there: none of them is locked *)
C31_Witness ==
    \E s \in Sessions :
        /\ op[s].kind = "move" /\ pc[s] = "move_done"
        /\ op[s].name = Name_pg_default /\ op[s].newname = Name_pg_default
        /\ BoundToOrigin(s) # {}
        /\ \A r \in BoundToOrigin(s) : <<s, r>> \notin relLocks

(* C32: a move from or to pg_global fails in its first step with
   "invalid parameter value", having found and locked no relation and
   rewritten nothing; a move that goes on has neither as pg_global, and
   no step of a move binds a relation to pg_global or takes one from it *)
C32_MoveRefusesGlobal ==
    /\ [][\A s \in Sessions :
             (pc[s] = "idle" /\ op'[s].kind = "move"
              /\ OidIsValid(Resolved(s, op'[s].name))
              /\ OidIsValid(Resolved(s, op'[s].newname))
              /\ GLOBALTABLESPACE_OID \in {Resolved(s, op'[s].name),
                                           Resolved(s, op'[s].newname)}) =>
                 /\ pc'[s] = "move_abort"
                 /\ ret'[s].err = "invalid_parameter_value"
                 /\ op'[s].todo = {} /\ op'[s].locked = {}
                 /\ pg_class' = pg_class /\ fs' = fs /\ relLocks' = relLocks]_vars
    /\ [][\A s \in Sessions : \A r \in Rels :
             (op[s].kind = "move" /\ pg_class'[r] # pg_class[r]) =>
                 /\ pg_class[r].spc # GLOBALTABLESPACE_OID
                 /\ pg_class'[r].spc # GLOBALTABLESPACE_OID]_vars
    /\ [](\A s \in Sessions :
             (op[s].kind = "move" /\ pc[s] \in {"move_scan", "move_done"}) =>
                 /\ op[s].oid # GLOBALTABLESPACE_OID
                 /\ op[s].newoid # GLOBALTABLESPACE_OID
                 /\ \A r \in op[s].todo \cup op[s].locked :
                       pg_class[r].spc # GLOBALTABLESPACE_OID)

(* a move of the relations of a tablespace to pg_global has failed; the
   relations are where they were and none is locked by the move *)
C32_Witness ==
    \E s \in Sessions :
        /\ op[s].kind = "move" /\ pc[s] = "move_abort"
        /\ ret[s].err = "invalid_parameter_value"
        /\ op[s].newname = Name_pg_global
        /\ BoundToOrigin(s) # {}
        /\ \A r \in Rels : <<s, r>> \notin relLocks

(* C33 as stated: every directory step taken by the holder of
   TablespaceCreateLock ends with the lock released *)
C33_ReleasedAfterStep ==
    [][\A s \in Sessions :
          (pc[s] \in LockedDirPcs /\ pc'[s] # pc[s]) =>
              TablespaceCreateLock' = NoSession]_vars

(* C33: TablespaceCreateLock is released before the transaction ends, on
   every path: a session that is idle, about to dispatch, commit or roll
   back, or past the lazy directory creation, does not hold it; the step
   that ends the directory work of Drop or of TablespaceCreateDbspace, by
   success or by error, leaves the lock free; and the holder is never
   blocked by another session.  A Drop whose first destruction fails keeps
   the lock through the forced checkpoint and the second destruction *)
C33_ReleasedBeforeEnd ==
    /\ [](\A s \in Sessions :
             /\ pc[s] \in {"idle", "commit", "abort", "dispatch", "rel_file"} =>
                    TablespaceCreateLock # s
             /\ TablespaceCreateLock = s =>
                    ENABLED (DropDestroy(s) \/ DropRetry(s) \/ DbspaceMkdir(s)))
    /\ [][\A s \in Sessions :
             (pc[s] \in LockedDirPcs /\ pc'[s] \notin LockedDirPcs) =>
                 /\ TablespaceCreateLock = s
                 /\ TablespaceCreateLock' = NoSession]_vars
    /\ [][\A s \in Sessions :
             (pc[s] = "drop_destroy" /\ pc'[s] = "drop_retry") =>
                 /\ TablespaceCreateLock' = s
                 /\ fs' = RequestCheckpoint(fs')]_vars

(* a Drop has failed with "is not empty" and the lock is free *)
C33_Witness ==
    \E s \in Sessions :
        /\ op[s].kind = "drop" /\ pc[s] = "abort"
        /\ ret[s].err = "object_not_in_prerequisite_state"
        /\ TablespaceCreateLock = NoSession

(* the call that session "s1" has just made to
   destroy_tablespace_directories: the version directory it was given, the
   subdirectories there and those that hold files *)
DestroyCalled == op["s1"].kind = "destroy"

DestroyDir == FsDir(redoPre.link[op["s1"].oid])

DestroyOpened ==
    /\ redoPre.link[op["s1"].oid] # NoLink /\ DestroyDir \in redoPre.verdir
    /\ "opendir" \notin redoPre.deny

DestroyNonEmpty ==
    {db \in Dbs : /\ <<DestroyDir, db>> \in redoPre.dbdir
                  /\ ~directory_is_empty(redoPre, DestroyDir, db)}

(* C34: a destroy_tablespace_directories outside redo that finds a
   per-database subdirectory with files returns false and raises nothing;
   that subdirectory, the version directory, the symlink and every file are
   as before, and what is gone are empty per-database subdirectories of
   this tablespace only *)
C34_NonEmptyReturnsFalse ==
    (DestroyCalled /\ ~op["s1"].redo /\ DestroyOpened /\ DestroyNonEmpty # {}) =>
        /\ op["s1"].result = FALSE /\ redoErr = "ok"
        /\ \A db \in DestroyNonEmpty : <<DestroyDir, db>> \in fs.dbdir
        /\ fs.verdir = redoPre.verdir /\ fs.link = redoPre.link
        /\ fs.relfile = redoPre.relfile /\ fs.locdir = redoPre.locdir
        /\ fs.dbdir \subseteq redoPre.dbdir
        /\ \A x \in redoPre.dbdir \ fs.dbdir :
               x[1] = DestroyDir /\ directory_is_empty(redoPre, x[1], x[2])

(* the call found files in one subdirectory and removed the empty one *)
C34_Witness ==
    /\ DestroyCalled /\ ~op["s1"].redo /\ DestroyOpened
    /\ DestroyNonEmpty # {} /\ ~op["s1"].result
    /\ fs.dbdir # redoPre.dbdir

(* C35: a destroy_tablespace_directories in redo mode raises nothing, and
   it returns false exactly when pg_tblspc/<oid>/<version directory> is
   still there afterwards; it returns true when that directory was missing
   and when only the symlink could not be removed *)
C35_RedoFalseIffDirRemains ==
    (DestroyCalled /\ op["s1"].redo) =>
        /\ redoErr = "ok"
        /\ op["s1"].result = FALSE <=>
               (fs.link[op["s1"].oid] # NoLink /\
                FsDir(fs.link[op["s1"].oid]) \in fs.verdir)
        /\ ~(redoPre.link[op["s1"].oid] # NoLink /\ DestroyDir \in redoPre.verdir)
               => op["s1"].result
        /\ (fs.link[op["s1"].oid] # NoLink /\ DestroyDir \notin fs.verdir)
               => op["s1"].result
        /\ (DestroyDir \in redoPre.verdir /\ "opendir" \in redoPre.deny
               /\ redoPre.link[op["s1"].oid] # NoLink) =>
               ~op["s1"].result /\ fs = redoPre

(* a call in redo mode removed the version directory, could not remove the
   symlink, and returned true *)
C35_Witness ==
    /\ DestroyCalled /\ op["s1"].redo /\ op["s1"].result
    /\ DestroyDir \in redoPre.verdir /\ DestroyDir \notin fs.verdir
    /\ fs.link[op["s1"].oid] # NoLink

(* a call in redo mode could not open the version directory, or could not
   remove it, and returned false *)
C35_WitnessFalse ==
    /\ DestroyCalled /\ op["s1"].redo /\ ~op["s1"].result
    /\ DestroyDir \in fs.verdir

(* pg_tblspc/<oid>/<version directory> cannot be found *)
DirMissing(f, tablespaceoid) ==
    ~(f.link[tablespaceoid] # NoLink /\ FsDir(f.link[tablespaceoid]) \in f.verdir)

(* C36: a Drop that finds the version directory of its tablespace missing,
   with or without the symlink, goes on: the destruction leaves no symlink
   and touches nothing else, the drop record is written, the row stays
   deleted by the transaction and is gone once it commits; and whenever no
   per-database subdirectory of the tablespace holds a file, the
   destruction of a Drop succeeds.  The same holds of the destruction on
   every filesystem that lacks the version directory, with the symlink
   still there or not *)
C36_DropOfMissingDirs ==
    /\ [][\A s \in Sessions :
             /\ (/\ pc[s] = "drop_destroy" /\ pc'[s] # pc[s]
                 /\ DirMissing(fs, op[s].oid)) =>
                    /\ DropLogged /\ wal'[Len(wal')].ts_id = op[s].oid
                    /\ fs' = [fs EXCEPT !.link[op[s].oid] = NoLink]
                    /\ pc'[s] = AfterLocal(s)
                    /\ \E t \in pg_tablespace' : t.oid = op[s].oid /\ t.xmax = s
             /\ (/\ op[s].kind = "drop" /\ pc[s] = "commit" /\ pc'[s] = "idle"
                 /\ ret[s].err = "ok") =>
                    \A t \in pg_tablespace' : t.oid # op[s].oid]_vars
    /\ [](\A s \in Sessions :
             (/\ pc[s] \in {"drop_destroy", "drop_retry"}
              /\ \A db \in Dbs :
                    directory_is_empty(fs, FsDir(fs.link[op[s].oid]), db)) =>
                 \A out \in destroy_tablespace_directories(fs, op[s].oid, FALSE) :
                     out.result /\ out.err = "ok")
    /\ [](\A s \in Sessions :
             (pc[s] = "drop_destroy" /\ DirMissing(fs, op[s].oid)) =>
                 \A f \in DestroyFs :
                     (DirMissing(f, FirstNormalObjectId) /\ f.deny = {}) =>
                         destroy_tablespace_directories(f, FirstNormalObjectId, FALSE)
                           = {[fs |-> [f EXCEPT !.link[FirstNormalObjectId] = NoLink],
                               result |-> TRUE, err |-> "ok"]})

(* a Drop removed the directories and was rolled back; the next Drop of
   the same tablespace has written its record and is about to commit *)
C36_Witness ==
    \E s \in Sessions :
        /\ op[s].kind = "drop" /\ pc[s] = "commit" /\ ret[s].err = "ok"
        /\ Len(wal) = 3
        /\ wal[2].info = "XLOG_TBLSPC_DROP" /\ wal[3].info = "XLOG_TBLSPC_DROP"
        /\ wal[2].ts_id = op[s].oid /\ wal[3].ts_id = op[s].oid

(* C37: no step of a Create changes the per-database subdirectories; a
   TablespaceCreateDbspace that returns leaves the subdirectory of its
   tablespace and database in place and has at most added that one entry;
   a call that finds the subdirectory, at its first look or once it holds
   the lock after another session made it, changes nothing and raises
   nothing; and a call for pg_global changes nothing and takes no lock *)
C37_LazyIdempotentDbspace ==
    [][\A s \in Sessions :
          /\ ((op[s].kind = "create" \/ op'[s].kind = "create") /\ pc'[s] # pc[s]) =>
                 fs'.dbdir = fs.dbdir
          /\ (pc[s] \in {"dbspace_stat", "dbspace_mkdir"} /\ pc'[s] = "rel_file") =>
                 /\ DbDirExists(fs', op[s].oid, RelDb(op[s].rel))
                 /\ fs' = [fs EXCEPT !.dbdir = @ \cup
                              {<<FsDir(fs.link[op[s].oid]), RelDb(op[s].rel)>>}]
                 /\ ret'[s].err = "ok"
          /\ (/\ pc[s] \in {"dbspace_stat", "dbspace_mkdir"} /\ pc'[s] # pc[s]
              /\ op[s].oid \in UserOids
              /\ DbDirExists(fs, op[s].oid, RelDb(op[s].rel))) =>
                 /\ pc'[s] = "rel_file" /\ fs' = fs /\ ret'[s].err = "ok"
          /\ (/\ pc[s] = "dbspace_stat" /\ pc'[s] # pc[s]
              /\ op[s].oid = GLOBALTABLESPACE_OID) =>
                 /\ pc'[s] = "commit" /\ ret'[s].err = "ok"
                 /\ UNCHANGED <<fs, TablespaceCreateLock, pg_tablespace, wal>>]_vars

(* two sessions call for the same tablespace and database: one has made
   the subdirectory, the other holds the lock and is about to look again *)
C37_Witness ==
    \E s, w \in Sessions :
        /\ s # w /\ pc[s] = "rel_file" /\ pc[w] = "dbspace_mkdir"
        /\ TablespaceCreateLock = w
        /\ op[s].oid = op[w].oid /\ op[s].rel = op[w].rel
        /\ DbDirExists(fs, op[w].oid, RelDb(op[w].rel))

(* a call for pg_global is about to return *)
C37_WitnessGlobal ==
    \E s \in Sessions :
        /\ pc[s] = "dbspace_stat" /\ op[s].oid = GLOBALTABLESPACE_OID
        /\ \E o \in UserOids : fs.link[o] # NoLink

(* the content ID that an override of the statement names *)
OptionId(defel) ==
    pg_atoi(SubSeq(defel.defname, Len(Key_content) + 1, Len(defel.defname))).val

WellFormed(defel) ==
    /\ Len(defel.defname) > Len(Key_content)
    /\ SubSeq(defel.defname, 1, Len(Key_content)) = Key_content

(* the positions of the overrides that name the worker's own segment *)
OwnOverrides(stmt) ==
    {i \in 1..Len(stmt.options) : /\ WellFormed(stmt.options[i])
                                  /\ OptionId(stmt.options[i]) = stmt.segindex}

(* C38: a Create by a superuser, when its overrides raise no error, works
   on this location: on a worker the location of the first override that
   names the worker's segment, and the common location when none does; on
   the coordinator the common location.  On the coordinator a well-formed
   override whose content ID is not one of the segments fails the Create
   with the statement's first step, which changes no catalog row, no
   directory and no log record *)
C38_EffectiveLocation ==
    [][\A s \in Sessions :
          (pc[s] = "idle" /\ op'[s].kind = "create" /\ superuser(op'[s].user)) =>
              LET stmt == op'[s]
                  own == OwnOverrides(stmt)
                  first == CHOOSE i \in own : \A j \in own : i <= j
              IN  /\ (Gp_role = "dispatch" /\ ret'[s].err \notin
                         {"syntax_error", "invalid_text_representation"}) =>
                         stmt.location = canonicalize_path(stmt.rawLocation)
                  /\ (/\ Gp_role # "dispatch" /\ own # {}
                      /\ \A i \in 1..first : WellFormed(stmt.options[i])) =>
                         /\ stmt.location =
                                canonicalize_path(stmt.options[first].arg)
                         /\ ret'[s].err \notin {"syntax_error",
                                                 "invalid_text_representation"}
                  /\ (/\ Gp_role # "dispatch" /\ own = {}
                      /\ ret'[s].err \notin {"syntax_error",
                                              "invalid_text_representation"}) =>
                         stmt.location = canonicalize_path(stmt.rawLocation)
                  /\ (/\ Gp_role = "dispatch"
                      /\ \E i \in 1..Len(stmt.options) :
                            /\ WellFormed(stmt.options[i])
                            /\ OptionId(stmt.options[i])
                                  \notin 0..(getgpsegmentCount - 1)) =>
                         /\ ret'[s].err = "syntax_error" /\ pc'[s] = "abort"
                         /\ UNCHANGED <<pg_tablespace, fs, wal, nextOid>>]_vars
    /\ [](\A s \in Sessions :
             (op[s].kind = "create" /\ pc[s] \in {"create_dirs", "dispatch", "commit"}
              /\ ret[s].err \in {"none", "ok"} /\ op[s].oid \in UserOids
              /\ pc[s] # "create_dirs") =>
                 fs.link[op[s].oid] = op[s].location)

(* a worker has made the directories of a Create at the location of its
   own override, which differs from the common location *)
C38_Witness ==
    \E s \in Sessions :
        /\ op[s].kind = "create" /\ pc[s] = "commit" /\ Gp_role = "execute"
        /\ op[s].options # <<>> /\ op[s].location # op[s].rawLocation
        /\ fs.link[op[s].oid] = op[s].location

(* the coordinator has refused a Create whose override names a segment
   that does not exist *)
C38_WitnessRefused ==
    \E s \in Sessions :
        /\ op[s].kind = "create" /\ pc[s] = "abort" /\ Gp_role = "dispatch"
        /\ ret[s].err = "syntax_error"
        /\ \A i \in 1..Len(op[s].options) : WellFormed(op[s].options[i])

(* the committed row that has this name, or NoTuple *)
RowNamed(name) ==
    IF \E t \in LiveRows : t.spcname = name
    THEN CHOOSE t \in LiveRows : t.spcname = name ELSE NoTuple

(* C39: a Rename fails with the first of: "undefined object" when no
   tablespace has the old name; "no privilege" when the user is neither a
   superuser nor the owner; "reserved name" when the new name starts with
   pg_ and allowSystemTableMods is off; "duplicate object" when a tablespace
   has the new name, the renamed one included.  The failing step and the
   rollback leave the catalog as it was; a Rename that commits has replaced
   the row by one that differs in the name only, and has touched neither
   filesystem nor log *)
C39_RenameChecksInOrder ==
    [][\A s \in Sessions :
          /\ (pc[s] = "idle" /\ op'[s].kind = "rename") =>
                 LET old == RowNamed(op'[s].name)
                     owns == superuser(op'[s].user) \/ old.spcowner = op'[s].user
                     reserved == /\ ~op'[s].allowSystemTableMods
                                 /\ IsReservedName(op'[s].newname)
                     taken == HeapTupleIsValid(RowNamed(op'[s].newname))
                     expected == IF ~HeapTupleIsValid(old) THEN "undefined_object"
                                 ELSE IF ~owns THEN "no_priv"
                                 ELSE IF reserved THEN "reserved_name"
                                 ELSE IF taken THEN "duplicate_object"
                                 ELSE "none"
                 IN  /\ ret'[s].err = expected
                     /\ pc'[s] = IF expected = "none" THEN "rename_update"
                                 ELSE "abort"
                     /\ op'[s].name = op'[s].newname => expected # "none"
                     /\ UNCHANGED <<pg_tablespace, fs, wal>>
          /\ (op[s].kind = "rename" /\ pc[s] = "abort" /\ pc'[s] = "idle") =>
                 /\ LiveRows' = LiveRows
                 /\ \A t \in pg_tablespace' : t.xmax = NoXid
                 /\ UNCHANGED <<fs, wal>>
          /\ (op[s].kind = "rename" /\ pc[s] = "commit" /\ pc'[s] = "idle") =>
                 LET old == CHOOSE t \in pg_tablespace :
                                t.oid = op[s].oid /\ t.xmax = s
                 IN  /\ old.spcname = op[s].name
                     /\ pg_tablespace' =
                            {t \in pg_tablespace : t.oid # op[s].oid} \cup
                            {[old EXCEPT !.spcname = op[s].newname,
                                         !.xmax = NoXid]}
                     /\ UNCHANGED <<fs, wal>>]_vars

(* a user who does not own the tablespace asked for a reserved name and
   was refused for the lack of privilege *)
C39_Witness ==
    \E s \in Sessions :
        /\ op[s].kind = "rename" /\ pc[s] = "abort" /\ ret[s].err = "no_priv"
        /\ IsReservedName(op[s].newname) /\ ~op[s].allowSystemTableMods

(* a Rename of a tablespace to the name it has was refused *)
C39_WitnessSelf ==
    \E s \in Sessions :
        /\ op[s].kind = "rename" /\ pc[s] = "abort"
        /\ ret[s].err = "duplicate_object" /\ op[s].name = op[s].newname

(* a Rename to a reserved name is about to commit *)
C39_WitnessDone ==
    \E s \in Sessions :
        /\ op[s].kind = "rename" /\ pc[s] = "commit"
        /\ IsReservedName(op[s].newname) /\ op[s].user # "su"

(* a Drop is between its LWLockAcquire and its release *)
Destroying(s) == pc[s] \in {"drop_destroy", "drop_retry"}

(* C40: while a Drop is between taking TablespaceCreateLock and releasing
   it, no session is inside the locked part of TablespaceCreateDbspace and
   no per-database subdirectory appears; and a step that makes one is
   taken by the holder of the lock while no Drop is destroying *)
C40_DropAndDbspaceApart ==
    /\ [](\A s, w \in Sessions :
             Destroying(s) => (TablespaceCreateLock = s /\ pc[w] # "dbspace_mkdir"))
    /\ [][(\E s \in Sessions : Destroying(s)) =>
             fs'.dbdir \subseteq fs.dbdir]_vars
    /\ [][\A w \in Sessions :
             (pc[w] = "dbspace_mkdir" /\ pc'[w] # pc[w]) =>
                 /\ TablespaceCreateLock = w
                 /\ \A s \in Sessions : ~Destroying(s)
                 /\ fs'.verdir = fs.verdir /\ fs'.link = fs.link
                 /\ fs.dbdir \subseteq fs'.dbdir]_vars

(* a Drop holds the lock and is about to destroy the directories of one
   tablespace while a session that needs a subdirectory in another one
   waits for the lock *)
C40_Witness ==
    \E s, w \in Sessions :
        /\ pc[s] = "drop_destroy" /\ TablespaceCreateLock = s
        /\ pc[w] = "dbspace_lock" /\ op[w].oid # op[s].oid
        /\ ~DbDirExists(fs, op[w].oid, RelDb(op[w].rel))

====
